---------------------------- MODULE Spec2Model ----------------------------
(***************************************************************************)
(* A model of the voice/text shell assistant (src/main.py, src/work.py):   *)
(* the directive extraction step of ConversationalAssistant.chat and the   *)
(* command dispatch of ShellAssistant.execute_command with the             *)
(* ProcessManager collaborator it calls.                                   *)
(*                                                                         *)
(* Text.  A Python str is a sequence of tokens.  The two markers           *)
(* "<ACTION>" and "</ACTION>", the JSON punctuation, the double quote, one *)
(* decimal digit and one white-space character are each a token; any other *)
(* run of characters (a word) is one token too.  No token other than a     *)
(* marker contains "<", so a substring search for a marker in the          *)
(* characters finds exactly the marker tokens.                             *)
(*                                                                         *)
(* Values.  A Python/JSON value is a record [t, n, s, m]: t is the type    *)
(* ("null", "num", "str", "arr", "obj"), n the integer of a number, s the  *)
(* text of a string and m the elements of a list or of a dict, each a      *)
(* record [k, v] (k is the key text, <<>> in a list).                      *)
(***************************************************************************)
EXTENDS Integers, Sequences, FiniteSets, TLC

VARIABLES
    assistant_message,  \* chat: the reply received from the LLM
    extracted,          \* chat: what its extraction step returned
    rev,                \* which revision runs: "main" (main.py) or "work" (work.py)
    conversation_history, \* ConversationalAssistant.conversation_history
    recent_pids,        \* ShellAssistant.recent_pids (main.py only)
    voice_mode,         \* ShellAssistant.voice_mode
    procs,              \* the operating system's process table: the live pids
    request,            \* execute_command: its arguments, [cmd_type, params]
    calls,              \* execute_command: the ProcessManager calls it made
    result,             \* execute_command: what it returned
    user_input,         \* turn loop: the utterance of the current turn
    running,            \* ShellAssistant.running
    sent,               \* chat: the message list of its last LLM call
    llm_calls,          \* chat: the number of LLM calls made so far
    tts                 \* TextToSpeech: its lock, the speak calls and the playbacks

vars == <<assistant_message, extracted, rev, conversation_history, recent_pids,
          voice_mode, procs, request, calls, result,
          user_input, running, sent, llm_calls, tts>>

chatVars == <<assistant_message, extracted>>
shellVars == <<rev, conversation_history, recent_pids, voice_mode, procs,
               request, calls, result>>
restVars == <<user_input, running, sent, llm_calls, tts>>

(***************************************************************************)
(* Text                                                                    *)
(***************************************************************************)
OPEN == "<ACTION>"
CLOSE == "</ACTION>"
Q == "\""
DigitChars == <<"0", "1", "2", "3", "4", "5", "6", "7", "8", "9">>
Digits == {DigitChars[i] : i \in 1..10}

IsSpace(c) == c \in {" ", "\n"}

Min(S) == CHOOSE x \in S : \A y \in S : x <= y
Max(S) == CHOOSE x \in S : \A y \in S : x >= y

\* tok in s
Contains(s, tok) == \E i \in 1..Len(s) : s[i] = tok

\* s.find(tok), as the 1-based position of the first occurrence (0: none)
Find(s, tok) ==
    IF Contains(s, tok) THEN Min({i \in 1..Len(s) : s[i] = tok}) ELSE 0

\* s.strip()
Strip(s) ==
    LET keep == {i \in 1..Len(s) : ~IsSpace(s[i])}
    IN  IF keep = {} THEN <<>> ELSE SubSeq(s, Min(keep), Max(keep))

\* s.lower(): the words that have an upper-case spelling in the model
Lower(s) ==
    [i \in 1..Len(s) |->
        CASE s[i] = "Chrome" -> "chrome"
          [] s[i] = "Helper" -> "helper"
          [] s[i] = "Not Found" -> "not found"
          [] s[i] = "HELP" -> "help"
          [] s[i] = "Exit" -> "exit"
          [] s[i] = "Quit" -> "quit"
          [] s[i] = "Voice" -> "voice"
          [] s[i] = "V" -> "v"
          [] OTHER -> s[i]]

(***************************************************************************)
(* Values                                                                  *)
(***************************************************************************)
None == [t |-> "null", n |-> 0, s |-> <<>>, m |-> <<>>]
JNum(i) == [t |-> "num", n |-> i, s |-> <<>>, m |-> <<>>]
JStr(x) == [t |-> "str", n |-> 0, s |-> x, m |-> <<>>]
JArr(elems) == [t |-> "arr", n |-> 0, s |-> <<>>, m |-> elems]
JObj(members) == [t |-> "obj", n |-> 0, s |-> <<>>, m |-> members]
Elem(v) == [k |-> <<>>, v |-> v]
Member(key, v) == [k |-> key, v |-> v]
EmptyDict == JObj(<<>>)

HasKey(d, key) == \E i \in 1..Len(d.m) : d.m[i].k = key

\* d[key] = v on a dict: an existing key keeps its place
DictSet(members, key, v) ==
    IF \E i \in 1..Len(members) : members[i].k = key
    THEN [i \in 1..Len(members) |->
            IF members[i].k = key THEN Member(key, v) ELSE members[i]]
    ELSE Append(members, Member(key, v))

\* d.get(key, default) on a dict
DictGet(d, key, default) ==
    IF HasKey(d, key)
    THEN d.m[CHOOSE i \in 1..Len(d.m) : d.m[i].k = key].v
    ELSE default

\* Python truth value: None, 0, "", [] and {} are false
Truthy(v) ==
    CASE v.t = "null" -> FALSE
      [] v.t = "num" -> v.n # 0
      [] v.t = "str" -> v.s # <<>>
      [] OTHER -> v.m # <<>>

(***************************************************************************)
(* Decimal numerals: str(int) and the digits of a JSON number              *)
(***************************************************************************)
DigitVal(c) == CHOOSE d \in 0..9 : DigitChars[d + 1] = c

RECURSIVE DigitsToInt(_)
DigitsToInt(ds) ==
    IF ds = <<>> THEN 0
    ELSE 10 * DigitsToInt(SubSeq(ds, 1, Len(ds) - 1)) + DigitVal(ds[Len(ds)])

RECURSIVE NatToDigits(_)
NatToDigits(i) ==
    IF i < 10 THEN <<DigitChars[i + 1]>>
    ELSE NatToDigits(i \div 10) \o <<DigitChars[(i % 10) + 1]>>

\* str(i)
IntToStr(i) == IF i < 0 THEN <<"-">> \o NatToDigits(-i) ELSE NatToDigits(i)

(***************************************************************************)
(* json.loads: the JSON grammar over tokens.  A parse result is            *)
(* [ok, v, i]: whether a value was read, the value, and the position after *)
(* it.  ok = FALSE is json.JSONDecodeError.  Strings have no escapes and   *)
(* numbers are integers (an optional minus sign, then 0 or a digit run     *)
(* without a leading 0); true, false and fractions are not in the token    *)
(* alphabet.                                                               *)
(***************************************************************************)
Fail == [ok |-> FALSE, v |-> None, i |-> 0]
Read(v, next) == [ok |-> TRUE, v |-> v, i |-> next]

\* the first position >= i that holds no white space (Len(s) + 1: none)
SkipSpace(s, i) ==
    LET stops == {j \in i..Len(s) : ~IsSpace(s[j])}
    IN  IF stops = {} THEN Len(s) + 1 ELSE Min(stops)

At(s, i, tok) == i <= Len(s) /\ s[i] = tok

\* s[i] is the opening quote
ParseString(s, i) ==
    LET ends == {j \in (i + 1)..Len(s) : s[j] = Q}
    IN  IF ends = {} THEN Fail
        ELSE Read(JStr(SubSeq(s, i + 1, Min(ends) - 1)), Min(ends) + 1)

\* s[i] is "-" or a digit
ParseNumber(s, i) ==
    LET first == IF s[i] = "-" THEN i + 1 ELSE i
        stops == {j \in first..Len(s) : s[j] \notin Digits}
        run == IF stops = {} THEN Len(s) + 1 ELSE Min(stops)
        next == IF At(s, first, "0") THEN first + 1 ELSE run
        mag == DigitsToInt(SubSeq(s, first, next - 1))
    IN  IF next = first THEN Fail
        ELSE Read(JNum(IF s[i] = "-" THEN 0 - mag ELSE mag), next)

RECURSIVE ParseValue(_, _), ParseElements(_, _, _), ParseMembers(_, _, _)

ParseValue(s, i) ==
    IF i > Len(s) THEN Fail
    ELSE CASE s[i] = Q -> ParseString(s, i)
           [] s[i] = "null" -> Read(None, i + 1)
           [] s[i] = "-" \/ s[i] \in Digits -> ParseNumber(s, i)
           [] s[i] = "[" ->
                LET j == SkipSpace(s, i + 1)
                IN  IF At(s, j, "]") THEN Read(JArr(<<>>), j + 1)
                    ELSE ParseElements(s, j, <<>>)
           [] s[i] = "{" ->
                LET j == SkipSpace(s, i + 1)
                IN  IF At(s, j, "}") THEN Read(EmptyDict, j + 1)
                    ELSE ParseMembers(s, j, <<>>)
           [] OTHER -> Fail

\* the elements of a list from position i on, acc being those read so far
ParseElements(s, i, acc) ==
    LET e == ParseValue(s, i)
        j == SkipSpace(s, e.i)
    IN  IF ~e.ok THEN Fail
        ELSE IF At(s, j, "]") THEN Read(JArr(Append(acc, Elem(e.v))), j + 1)
        ELSE IF At(s, j, ",")
             THEN ParseElements(s, SkipSpace(s, j + 1), Append(acc, Elem(e.v)))
        ELSE Fail

\* the members of a dict from position i on, acc being those read so far
ParseMembers(s, i, acc) ==
    IF ~At(s, i, Q) THEN Fail
    ELSE LET key == ParseString(s, i)
             c == SkipSpace(s, key.i)
             e == ParseValue(s, SkipSpace(s, c + 1))
             j == SkipSpace(s, e.i)
         IN  IF ~key.ok \/ ~At(s, c, ":") THEN Fail
             ELSE IF ~e.ok THEN Fail
             ELSE IF At(s, j, "}")
                  THEN Read(JObj(DictSet(acc, key.v.s, e.v)), j + 1)
             ELSE IF At(s, j, ",")
                  THEN ParseMembers(s, SkipSpace(s, j + 1),
                                    DictSet(acc, key.v.s, e.v))
             ELSE Fail

\* json.loads(s): leading white space, one value, trailing white space
JsonLoads(s) ==
    LET r == ParseValue(s, SkipSpace(s, 1))
    IN  IF r.ok /\ SkipSpace(s, r.i) > Len(s) THEN r ELSE Fail

(***************************************************************************)
(* The wire format the system prompt gives the LLM:                        *)
(*   <ACTION>{"command": "...", "params": {...}}</ACTION>                  *)
(***************************************************************************)
RECURSIVE JsonDumps(_), DumpItems(_, _)

\* the members or elements m, separated by ", "
DumpItems(m, isDict) ==
    IF m = <<>> THEN <<>>
    ELSE LET item == (IF isDict THEN <<Q>> \o m[1].k \o <<Q, ":", " ">> ELSE <<>>)
                     \o JsonDumps(m[1].v)
         IN  IF Len(m) = 1 THEN item
             ELSE item \o <<",", " ">> \o DumpItems(Tail(m), isDict)

JsonDumps(v) ==
    CASE v.t = "null" -> <<"null">>
      [] v.t = "num" -> IntToStr(v.n)
      [] v.t = "str" -> <<Q>> \o v.s \o <<Q>>
      [] v.t = "arr" -> <<"[">> \o DumpItems(v.m, FALSE) \o <<"]">>
      [] OTHER -> <<"{">> \o DumpItems(v.m, TRUE) \o <<"}">>

Directive(command, params) ==
    JObj(<<Member(<<"command">>, command), Member(<<"params">>, params)>>)

EncodeDirective(command, params) ==
    <<OPEN>> \o JsonDumps(Directive(command, params)) \o <<CLOSE>>

(***************************************************************************)
(* ConversationalAssistant.chat, from "command = None" to its return: the  *)
(* extraction of (response_text, command, params) from the reply.          *)
(***************************************************************************)
Triple(prose, command, params) ==
    [raised |-> "", prose |-> prose, command |-> command, params |-> params]
Raise(exception) ==
    [raised |-> exception, prose |-> <<>>, command |-> None, params |-> None]

\* str(e) of the exception the extraction can raise
ErrorText(exception) == <<"Error: ", exception>>

\* action_data.get(...) needs a dict: anything else json.loads returns has
\* no attribute get
ReadDirective(response_text, action_data) ==
    IF action_data.t # "obj" THEN Raise("AttributeError")
    ELSE Triple(response_text,
                DictGet(action_data, <<"command">>, None),
                DictGet(action_data, <<"params">>, EmptyDict))

\* mutant: the reply without markers is trimmed as the prose of a directive is
WithoutMarkersTrimmed(message) == Triple(Strip(message), None, None)

\* command = None; params = None; response_text = assistant_message
WithoutMarkers(message) == Triple(message, None, None)

\* the body of "if '<ACTION>' in ... and '</ACTION>' in ...": both finds
\* search from the start of the reply; s[a:b] is empty when a >= b
WithMarkers(message) ==
    LET action_start == Find(message, OPEN) + 1
        action_end == Find(message, CLOSE)
        action_json == Strip(SubSeq(message, action_start, action_end - 1))
        response_text == Strip(SubSeq(message, 1, Find(message, OPEN) - 1))
        loaded == JsonLoads(action_json)
    IN  IF ~loaded.ok THEN Triple(response_text, None, None)
        ELSE ReadDirective(response_text, loaded.v)

\* the try block's body from "command = None" on
ExtractBody(message) ==
    IF Contains(message, OPEN) /\ Contains(message, CLOSE)
    THEN WithMarkers(message)
    ELSE WithoutMarkers(message)

\* mutant: the handler is "except json.JSONDecodeError", which lets the rest by
CatchDecodeErrorOnly(outcome) == outcome

\* except Exception as e: return f"Error: {str(e)}", None, None
CatchAll(outcome) ==
    IF outcome.raised # "" THEN Triple(ErrorText(outcome.raised), None, None)
    ELSE outcome

ExtractDirective(message) == CatchAll(ExtractBody(message))

(***************************************************************************)
(* The replies the LLM may send: every token sequence of at most MaxRawLen *)
(* tokens over RawAlphabet, and prose, a directive block and a tail put    *)
(* together from the parts below.                                          *)
(***************************************************************************)
MaxRawLen == 3
RawAlphabet == {OPEN, CLOSE, " ", "ok", "{", "}", "[", "]", Q, "7"}
RawReplies == UNION {[1..n -> RawAlphabet] : n \in 0..MaxRawLen}

WireCommands == {<<"top_processes">>, <<"kill_process">>, <<"kill_by_name">>}
WireParams ==
    { EmptyDict,
      None,
      JObj(<<Member(<<"pid">>, JNum(43))>>),
      JObj(<<Member(<<"count">>, JNum(0)), Member(<<"sort_by">>, JStr(<<"memory">>))>>),
      JObj(<<Member(<<"count">>, JNum(-5))>>),
      JObj(<<Member(<<"name">>, JStr(<<"chrome">>)),
             Member(<<"exclude">>, JArr(<<Elem(JStr(<<"helper">>))>>))>>),
      JObj(<<Member(<<"name">>, JStr(<<OPEN>>))>>),
      JObj(<<Member(<<"name">>, JStr(<<CLOSE>>))>>),
      JObj(<<Member(<<"name">>, JStr(<<"a", CLOSE, "b">>))>>) }
WireDirectives == [command : WireCommands, params : WireParams]

\* what may stand between the markers
Bodies ==
    {JsonDumps(Directive(JStr(d.command), d.params)) : d \in WireDirectives}
    \cup { <<>>,
           <<"junk">>,
           <<"{", Q, "command", Q, ":", " ", Q, "kill_process", Q>>,
           <<"{", Q, "command", Q, " ", Q, "kill_process", Q, "}">>,
           <<"{", Q, "command", Q, ":", " ", Q, "system_info", Q, "}">>,
           <<"{", Q, "command", Q, ":", " ", "null", ",", Q, "params", Q, ":", "{", "}", "}">>,
           <<"{", Q, "params", Q, ":", " ", "[", "4", ",", "3", "]", "}">>,
           <<"{", "}">>,
           <<"[", "1", ",", " ", "2", "]">>,
           <<"0", "5">>,
           <<"4", "3">>,
           <<"-">>,
           <<Q, "chrome", Q>>,
           <<"null">> }

Blocks ==
    {<<>>}
    \cup {<<OPEN>> \o b \o <<CLOSE>> : b \in Bodies}
    \cup {<<OPEN, " ">> \o b \o <<"\n", CLOSE>> : b \in Bodies}
    \cup {<<OPEN>> \o b : b \in Bodies}
    \cup {b \o <<CLOSE>> : b \in Bodies}

Proses == {<<>>, <<"Terminating.", " ">>, <<" ", "On", " ", "it", "\n">>,
           <<"see", " ", CLOSE, " ">>}
Tails == {<<>>, <<" ", "Done.">>,
          EncodeDirective(JStr(<<"kill_process">>), JObj(<<Member(<<"pid">>, JNum(9))>>))}

Replies ==
    RawReplies \cup {p \o b \o e : p \in Proses, b \in Blocks, e \in Tails}

(***************************************************************************)
(* The extraction step on its own: a reply has arrived, chat extracts.     *)
(***************************************************************************)
NotExtracted ==
    [done |-> FALSE, raised |-> "", prose |-> <<>>, command |-> None, params |-> None]

Returned(outcome) ==
    [done |-> TRUE, raised |-> outcome.raised, prose |-> outcome.prose,
     command |-> outcome.command, params |-> outcome.params]

\* no command is being executed: a marker that is no Python value
Idle == [t |-> "idle", n |-> 0, s |-> <<>>, m |-> <<>>]
NoRequest == [cmd_type |-> Idle, params |-> Idle]
NoResult == [raised |-> "", text |-> <<>>]

\* ShellAssistant.__init__ with an empty process table and nothing dispatched
ShellIdle ==
    /\ rev = "main"
    /\ conversation_history = <<>>
    /\ recent_pids = <<>>
    /\ voice_mode = TRUE
    /\ procs = {}
    /\ request = NoRequest
    /\ calls = <<>>
    /\ result = NoResult

(***************************************************************************)
(* TextToSpeech.  main.py: speak runs in the thread that calls it, under   *)
(* self.lock; the GUI (main) thread and the listen thread both call it.    *)
(* work.py: speak starts a worker thread per request and joins it for at   *)
(* most ten seconds.  tts holds the lock's holder, is_speaking, where each *)
(* calling thread of main.py is in speak, where each worker of work.py is, *)
(* whether work.py's caller is joining a worker, and how many speak calls  *)
(* were made and dropped.                                                  *)
(***************************************************************************)
MaxSpeaks == 3
Threads == {"gui", "loop"}
Workers == 1..MaxSpeaks

TtsIdle ==
    [lock |-> "free", is_speaking |-> FALSE,
     thread |-> [t \in Threads |-> "out"],
     worker |-> [w \in Workers |-> "unborn"],
     joining |-> 0, spoken |-> 0, dropped |-> 0]

\* the turn loop before its first utterance, no LLM call made
RestIdle ==
    /\ user_input = <<>>
    /\ running = TRUE
    /\ sent = <<>>
    /\ llm_calls = 0
    /\ tts = TtsIdle

InitExtract ==
    /\ assistant_message \in Replies
    /\ extracted = NotExtracted
    /\ ShellIdle
    /\ RestIdle

ExtractStep ==
    /\ ~extracted.done
    /\ extracted' = Returned(ExtractDirective(assistant_message))
    /\ UNCHANGED <<assistant_message, shellVars, restVars>>

NextExtract == ExtractStep

SpecExtract == InitExtract /\ [][NextExtract]_vars

\* the reply holds both markers (the test of chat's if)
HasBothMarkers(message) == Contains(message, OPEN) /\ Contains(message, CLOSE)

\* the text before the first opening marker, trimmed
ProseBefore(message) == Strip(SubSeq(message, 1, Find(message, OPEN) - 1))

\* the opening/closing marker positions <<p, q>> of the reply, p before q
MarkerPairs(message) ==
    {pq \in (1..Len(message)) \X (1..Len(message)) :
        /\ pq[1] < pq[2]
        /\ message[pq[1]] = OPEN
        /\ message[pq[2]] = CLOSE}

\* the first closing marker after position p (0: none)
CloseAfter(message, p) ==
    LET after == {q \in (p + 1)..Len(message) : message[q] = CLOSE}
    IN  IF after = {} THEN 0 ELSE Min(after)

\* what stands between the markers at p and q, read as JSON
Enclosed(message, p, q) == JsonLoads(Strip(SubSeq(message, p + 1, q - 1)))

IsRecord(loaded) ==
    /\ loaded.ok
    /\ loaded.v.t = "obj"
    /\ HasKey(loaded.v, <<"command">>)
    /\ HasKey(loaded.v, <<"params">>)

(***************************************************************************)
(* Claims about the extraction step                                        *)
(***************************************************************************)

\* C1: the extraction step never raises to the caller of chat: whatever the
\* reply, a (prose, command, params) triple is returned.
C1_ExtractionReturnsTriple ==
    extracted.done => extracted.raised = ""

\* C1 witness: a reply whose enclosed content made the try block raise, and
\* for which chat still returned a triple (the error text, no command).
C1_Witness ==
    /\ extracted.done
    /\ ExtractBody(assistant_message).raised # ""
    /\ extracted.raised = ""
    /\ extracted.command = None

\* C2 (as claimed): when the content between the opening marker and the
\* closing marker after it is not a record (invalid JSON, or JSON that is
\* not an object), the command is none and the prose is the trimmed text
\* before the opening marker.
C2_MalformedKeepsProse ==
    LET p == Find(assistant_message, OPEN)
        q == CloseAfter(assistant_message, p)
    IN  (/\ extracted.done
         /\ p > 0 /\ q > 0
         /\ LET loaded == Enclosed(assistant_message, p, q)
            IN  ~loaded.ok \/ loaded.v.t # "obj")
        => /\ extracted.command = None
           /\ extracted.prose = ProseBefore(assistant_message)

\* C3 (as claimed): a reply without the marker pair yields no command, no
\* params and the whole reply trimmed of surrounding white space as prose.
C3_NoPairProseTrimmed ==
    (extracted.done /\ ~HasBothMarkers(assistant_message))
    => /\ extracted.command = None
       /\ extracted.params = None
       /\ extracted.prose = Strip(assistant_message)

\* C3 (amended): a reply without the marker pair yields no command, no
\* params and the whole reply, unchanged (not trimmed), as prose.
C3_NoPairProseWhole ==
    (extracted.done /\ ~HasBothMarkers(assistant_message))
    => /\ extracted.command = None
       /\ extracted.params = None
       /\ extracted.prose = assistant_message

\* C3 witness: a reply with only one of the two markers and surrounding
\* white space has been extracted.
C3_Witness ==
    /\ extracted.done
    /\ ~HasBothMarkers(assistant_message)
    /\ Contains(assistant_message, OPEN)
    /\ Strip(assistant_message) # assistant_message

\* C4 (as claimed): when the first opening marker, a JSON record with command
\* and params, and a closing marker follow each other, the prose is the
\* trimmed text before the opening marker and the command and params are the
\* record's.
C4_WellFormedPairDecoded ==
    extracted.done =>
        \A pq \in MarkerPairs(assistant_message) :
            LET loaded == Enclosed(assistant_message, pq[1], pq[2])
            IN  (pq[1] = Find(assistant_message, OPEN) /\ IsRecord(loaded))
                => /\ extracted.prose = ProseBefore(assistant_message)
                   /\ extracted.command = DictGet(loaded.v, <<"command">>, None)
                   /\ extracted.params = DictGet(loaded.v, <<"params">>, None)

\* a reply with more than one directive block: marker pair after marker pair
HasTwoBlocks(message) ==
    \E a \in MarkerPairs(message), b \in MarkerPairs(message) : a[2] < b[1]

\* C5 (as claimed): with more than one block in the reply, the command and
\* params are decoded from the content between the first opening marker and
\* the first closing marker that follows it.
C5_FirstBlockWins ==
    LET p == Find(assistant_message, OPEN)
        q == CloseAfter(assistant_message, p)
        loaded == Enclosed(assistant_message, p, q)
    IN  (extracted.done /\ HasTwoBlocks(assistant_message))
        => /\ (loaded.ok /\ loaded.v.t = "obj")
                => /\ extracted.command = DictGet(loaded.v, <<"command">>, None)
                   /\ extracted.params = DictGet(loaded.v, <<"params">>, EmptyDict)
           /\ ~loaded.ok
                => /\ extracted.command = None
                   /\ extracted.params = None

\* C6 (as claimed): encoding a directive in the wire format and extracting
\* gives back its command identifier and its parameter mapping.
C6_RoundTrip ==
    extracted.done =>
        \A d \in WireDirectives :
            (d.params.t = "obj"
             /\ assistant_message = EncodeDirective(JStr(d.command), d.params))
            => /\ extracted.command = JStr(d.command)
               /\ extracted.params = d.params

(***************************************************************************)
(* The operating system as psutil shows it: the processes that can exist,  *)
(* their names and load figures.  procs is the set of the live ones.       *)
(***************************************************************************)
Pids == {9, 43, 44}
ProcName ==
    [p \in Pids |->
        CASE p = 9 -> <<"Not Found">>
          [] p = 43 -> <<"Chrome", " ", "Helper">>
          [] OTHER -> <<"chrome">>]
CpuPercent == [p \in Pids |-> CASE p = 9 -> 30 [] p = 43 -> 30 [] OTHER -> 0]
MemPercent == [p \in Pids |-> CASE p = 9 -> 5 [] p = 43 -> 20 [] OTHER -> 50]

\* the check mark and the cross that start main.py's result texts
Tick == "(check)"
Cross == "(cross)"

\* a in b for two texts: a is a run of consecutive tokens of b
IsInfix(a, b) ==
    \E i \in 0..(Len(b) - Len(a)) : SubSeq(b, i + 1, i + Len(a)) = a

\* s.upper(): the words that have a lower-case spelling in the model
Upper(s) ==
    [i \in 1..Len(s) |->
        CASE s[i] = "cpu" -> "CPU"
          [] s[i] = "memory" -> "MEMORY"
          [] OTHER -> s[i]]

\* str(v) inside an f-string
PyStr(v) ==
    CASE v.t = "str" -> v.s
      [] v.t = "null" -> <<"None">>
      [] v.t = "num" -> IntToStr(v.n)
      [] OTHER -> JsonDumps(v)

\* int(v): [exc, n]; a str is trimmed and read as an optional sign and digits
IntOf(v) ==
    CASE v.t = "num" -> [exc |-> "", n |-> v.n]
      [] v.t = "str" ->
            LET body == Strip(v.s)
                signed == body # <<>> /\ body[1] \in {"-", "+"}
                ds == IF signed THEN Tail(body) ELSE body
            IN  IF ds # <<>> /\ \A i \in 1..Len(ds) : ds[i] \in Digits
                THEN [exc |-> "",
                      n |-> IF signed /\ body[1] = "-"
                            THEN 0 - DigitsToInt(ds) ELSE DigitsToInt(ds)]
                ELSE [exc |-> "ValueError", n |-> 0]
      [] OTHER -> [exc |-> "TypeError", n |-> 0]

\* mutant: the slice is left out
TakeAll(seq, n) == seq

\* seq[:n]
Take(seq, n) ==
    IF n >= 0 THEN SubSeq(seq, 1, IF n < Len(seq) THEN n ELSE Len(seq))
    ELSE SubSeq(seq, 1, Len(seq) + n)

\* list.sort(key=..., reverse=True) of the processes in pid order: by
\* descending key, equal keys staying in pid order (the sort is stable)
RECURSIVE SortDesc(_, _)
SortDesc(S, key) ==
    IF S = {} THEN <<>>
    ELSE LET top == CHOOSE x \in S :
                        \A y \in S : key[x] > key[y] \/ (key[x] = key[y] /\ x <= y)
         IN  <<top>> \o SortDesc(S \ {top}, key)

\* ProcessManager.get_top_processes(n, sort_by): [error, pids]; fails is
\* psutil raising inside the outer try
get_top_processes(n, sort_by, live, fails) ==
    IF fails THEN [error |-> TRUE, pids |-> <<>>]
    ELSE LET processes ==
                 IF sort_by = JStr(<<"memory">>) THEN SortDesc(live, MemPercent)
                 ELSE SortDesc(live, CpuPercent)
         IN  [error |-> FALSE, pids |-> Take(processes, n)]

(***************************************************************************)
(* ProcessManager.kill_process(pid).  outcome is what psutil does for a    *)
(* live process: "terminated", "denied" (AccessDenied), "vanished"         *)
(* (NoSuchProcess: it exited meanwhile), "timeout_killed" and              *)
(* "timeout_failed" (wait timed out, then kill() worked or raised),        *)
(* "error" (any other exception, which kill_process does not catch).       *)
(* The result is [raised, text, procs, signals], signals being the         *)
(* requests made on the psutil.Process, each with what it raised.          *)
(***************************************************************************)
KillOutcomes ==
    {"terminated", "denied", "vanished", "timeout_killed", "timeout_failed", "error"}

KillText(r, kind, pid) ==
    LET name == IF pid \in Pids THEN ProcName[pid] ELSE <<>>
        id == IntToStr(pid)
    IN  IF r = "main"
        THEN CASE kind = "terminated" ->
                    <<Tick, "Process ">> \o name \o <<" (PID ">> \o id
                        \o <<") ", "terminated", " successfully">>
               [] kind = "notfound" -> <<Cross, "Process ">> \o id \o <<" ", "not found">>
               [] kind = "denied" ->
                    <<Cross, "Access denied for PID ">> \o id \o <<". Need admin rights">>
               [] kind = "killed" ->
                    <<Tick, "Process ">> \o name \o <<" (PID ">> \o id \o <<") ", "force killed">>
               [] OTHER -> <<Cross, "Failed to kill process ">> \o id
        ELSE CASE kind = "terminated" ->
                    <<"Process ">> \o name \o <<" with ID ">> \o id
                        \o <<" has been ", "terminated", " successfully">>
               [] kind = "notfound" ->
                    <<"Process with ID ">> \o id \o <<" was ", "not found", " on the system">>
               [] kind = "denied" ->
                    <<"Access denied. Cannot terminate process ">> \o id
                        \o <<". You may need administrator rights">>
               [] kind = "killed" ->
                    <<"Process ">> \o name \o <<" with ID ">> \o id \o <<" was ", "force killed">>
               [] OTHER -> <<"Failed to kill process ">> \o id

Signal(op, pid, raised) == [op |-> op, pid |-> pid, raised |-> raised]

\* proc.terminate() went through; proc.wait(timeout=3) returned
Graceful(pid) == <<Signal("terminate", pid, ""), Signal("wait", pid, "")>>

\* mutant: the handler of the timeout is also the one of AccessDenied
EscalateAlways(pid, raised, kill_raised) ==
    <<Signal("terminate", pid, raised), Signal("kill", pid, kill_raised)>>

\* proc.terminate() raised, which ends the try block
Refused(pid, raised, kill_raised) == <<Signal("terminate", pid, raised)>>

\* except psutil.TimeoutExpired: proc.kill()
Escalated(pid, kill_raised) ==
    <<Signal("terminate", pid, ""), Signal("wait", pid, "TimeoutExpired"),
      Signal("kill", pid, kill_raised)>>

Killed(raised, text, live, signals) ==
    [raised |-> raised, text |-> text, procs |-> live, signals |-> signals]

kill_process(r, pid, live, outcome) ==
    IF pid < 0 THEN Killed("ValueError", <<>>, live, <<>>)
    ELSE IF pid \notin live
    THEN Killed("", KillText(r, "notfound", pid), live, <<>>)
    ELSE CASE outcome = "terminated" ->
                Killed("", KillText(r, "terminated", pid), live \ {pid}, Graceful(pid))
           [] outcome = "denied" ->
                Killed("", KillText(r, "denied", pid), live,
                       Refused(pid, "AccessDenied", ""))
           [] outcome = "vanished" ->
                Killed("", KillText(r, "notfound", pid), live \ {pid},
                       Refused(pid, "NoSuchProcess", ""))
           [] outcome = "timeout_killed" ->
                Killed("", KillText(r, "killed", pid), live \ {pid}, Escalated(pid, ""))
           [] outcome = "timeout_failed" ->
                Killed("", KillText(r, "failed", pid), live, Escalated(pid, "Exception"))
           [] OTHER -> Killed("Exception", <<>>, live, Refused(pid, "Exception", ""))

(***************************************************************************)
(* ProcessManager.kill_by_name(name, exclude).  denied are the processes   *)
(* whose terminate() raises NoSuchProcess or AccessDenied (skipped).       *)
(* The result is [text, procs, killed]; every exception is caught inside.  *)
(***************************************************************************)
\* what "for ex in exclude" yields: [exc, items]
Iterate(v) ==
    CASE v.t = "arr" -> [exc |-> "", items |-> [i \in 1..Len(v.m) |-> v.m[i].v]]
      [] v.t = "obj" -> [exc |-> "", items |-> [i \in 1..Len(v.m) |-> JStr(v.m[i].k)]]
      [] v.t = "str" -> [exc |-> "", items |-> [i \in 1..Len(v.s) |-> JStr(<<v.s[i]>>)]]
      [] OTHER -> [exc |-> "TypeError", items |-> <<>>]

\* any(ex.lower() in pname.lower() for ex in exclude): "yes", "no" or the
\* exception raised before a match is found
AnyExcluded(exclude, pname) ==
    LET it == Iterate(exclude)
        bad == {i \in 1..Len(it.items) : it.items[i].t # "str"}
        hit == {i \in 1..Len(it.items) :
                    /\ it.items[i].t = "str"
                    /\ IsInfix(Lower(it.items[i].s), Lower(pname))}
    IN  IF it.exc # "" THEN it.exc
        ELSE IF hit # {} /\ (bad = {} \/ Min(hit) < Min(bad)) THEN "yes"
        ELSE IF bad # {} THEN "AttributeError"
        ELSE "no"

\* the for loop over psutil.process_iter, from the processes todo (in pid
\* order) on: [exc, killed, procs]
RECURSIVE KillLoop(_, _, _, _, _, _)
KillLoop(todo, name, exclude, denied, killed, live) ==
    IF todo = <<>> THEN [exc |-> "", killed |-> killed, procs |-> live]
    ELSE LET p == Head(todo)
         IN  IF name.t # "str"
             THEN [exc |-> "AttributeError", killed |-> killed, procs |-> live]
             ELSE IF ~IsInfix(Lower(name.s), Lower(ProcName[p]))
             THEN KillLoop(Tail(todo), name, exclude, denied, killed, live)
             ELSE LET ex == AnyExcluded(exclude, ProcName[p])
                  IN  IF ex = "yes" \/ (ex = "no" /\ p \in denied)
                      THEN KillLoop(Tail(todo), name, exclude, denied, killed, live)
                      ELSE IF ex = "no"
                      THEN KillLoop(Tail(todo), name, exclude, denied,
                                    Append(killed, p), live \ {p})
                      ELSE [exc |-> ex, killed |-> killed, procs |-> live]

RECURSIVE KilledList(_, _)
KilledList(r, killed) ==
    IF killed = <<>> THEN <<>>
    ELSE LET one == ProcName[killed[1]]
                    \o (IF r = "main" THEN <<" (PID ">> ELSE <<" with PID ">>)
                    \o IntToStr(killed[1])
                    \o (IF r = "main" THEN <<")">> ELSE <<>>)
         IN  IF Len(killed) = 1 THEN one
             ELSE one \o <<", ">> \o KilledList(r, Tail(killed))

\* exclude = exclude or []
OrEmptyList(exclude) == IF Truthy(exclude) THEN exclude ELSE JArr(<<>>)

kill_by_name(r, name, exclude, live, denied) ==
    LET loop == KillLoop(SortDesc(live, [p \in Pids |-> 0 - p]), name,
                         OrEmptyList(exclude), denied, <<>>, live)
        text ==
            IF r = "main"
            THEN IF loop.exc # "" THEN <<Cross, "Error: ", loop.exc>>
                 ELSE IF loop.killed # <<>>
                 THEN <<Tick, "Terminated ">> \o IntToStr(Len(loop.killed))
                      \o <<" process(es): ">> \o KilledList(r, loop.killed)
                 ELSE <<Cross, "No processes named '">> \o PyStr(name) \o <<"' found">>
            ELSE IF loop.exc # ""
                 THEN <<"Error occurred while killing processes: ", loop.exc>>
                 ELSE IF loop.killed # <<>>
                 THEN <<"Successfully terminated ">> \o IntToStr(Len(loop.killed))
                      \o <<" process(es): ">> \o KilledList(r, loop.killed)
                 ELSE <<"No processes named ">> \o PyStr(name)
                      \o <<" were found on the system">>
    IN  [text |-> text, procs |-> loop.procs, killed |-> loop.killed]

(***************************************************************************)
(* The other ProcessManager operations.  Each catches every exception in   *)
(* its own try block, except open_application's app_name.lower(), which    *)
(* stands before the try.                                                  *)
(***************************************************************************)
\* get_process_info(pid): [error, text, name]; fails is any other exception
get_process_info(pid, live, fails) ==
    IF pid = 0
    THEN [error |-> TRUE, text |-> <<"PID not specified">>, name |-> <<>>]
    ELSE IF pid < 0
    THEN [error |-> TRUE, text |-> <<"ValueError">>, name |-> <<>>]
    ELSE IF pid \notin live
    THEN [error |-> TRUE, name |-> <<>>,
          text |-> <<"Process ">> \o IntToStr(pid) \o <<" ", "not found">>]
    ELSE IF fails
    THEN [error |-> TRUE, text |-> <<"psutil error">>, name |-> <<>>]
    ELSE [error |-> FALSE, text |-> <<>>, name |-> ProcName[pid]]

\* list_files(path): outcome is what the file system shows at the path
FileOutcomes == {"missing", "file", "empty", "listing", "error"}

list_files(r, path, outcome) ==
    LET mark == IF r = "main" THEN <<Cross>> ELSE <<>>
    IN  IF path.t # "str" \/ outcome = "error"
        THEN mark \o <<"Error: ", "OSError">>
        ELSE CASE outcome = "missing" ->
                    mark \o <<"Path ">> \o path.s \o <<" does not exist">>
               [] outcome = "file" -> <<"This is a file: ">> \o path.s
               [] outcome = "empty" -> <<"Directory ">> \o path.s \o <<" is empty">>
               [] OTHER -> <<"Contents of ">> \o path.s \o <<":\n">>

\* open_application's table app_paths, in the order of the dict
AppPaths ==
    << [key |-> "camera", path |-> "microsoft.windows.camera:"],
       [key |-> "notepad", path |-> "notepad.exe"],
       [key |-> "calculator", path |-> "calc.exe"],
       [key |-> "paint", path |-> "mspaint.exe"],
       [key |-> "chrome", path |-> "chrome.exe"],
       [key |-> "brave", path |-> "brave.exe"],
       [key |-> "firefox", path |-> "firefox.exe"],
       [key |-> "edge", path |-> "msedge.exe"],
       [key |-> "spotify", path |-> "Spotify.exe"],
       [key |-> "discord", path |-> "Discord.exe"],
       [key |-> "vscode", path |-> "Code.exe"],
       [key |-> "code", path |-> "Code.exe"],
       [key |-> "word", path |-> "WINWORD.EXE"],
       [key |-> "excel", path |-> "EXCEL.EXE"],
       [key |-> "powerpoint", path |-> "POWERPNT.EXE"],
       [key |-> "teams", path |-> "Teams.exe"],
       [key |-> "outlook", path |-> "OUTLOOK.EXE"] >>

\* the launch target of a name: the path of the first key found in the
\* lower-cased name, else the name itself
LaunchTarget(app_name) ==
    LET found == {i \in 1..Len(AppPaths) : IsInfix(<<AppPaths[i].key>>, Lower(app_name))}
    IN  IF found = {} THEN app_name ELSE <<AppPaths[Min(found)].path>>

LaunchOutcomes == {"opened", "attempted", "notfound", "error"}

\* open_application(app_name): [raised, text, procs, target]; outcome is what
\* starting the target did, spawn the process it started (0: none to be seen)
open_application(app_name, live, outcome, spawn) ==
    IF app_name.t # "str"
    THEN [raised |-> "AttributeError", text |-> <<>>, procs |-> live, target |-> <<>>]
    ELSE LET target == LaunchTarget(app_name.s)
             started == IF spawn \in Pids THEN live \cup {spawn} ELSE live
         IN  CASE outcome = "opened" ->
                    [raised |-> "", procs |-> started, target |-> target,
                     text |-> <<Tick, "Opened ">> \o app_name.s]
               [] outcome = "attempted" ->
                    [raised |-> "", procs |-> started, target |-> target,
                     text |-> <<Tick, "Attempted to open ">> \o app_name.s]
               [] outcome = "notfound" ->
                    [raised |-> "", procs |-> live, target |-> target,
                     text |-> <<Cross, "Application '">> \o app_name.s \o <<"' not found.">>]
               [] OTHER ->
                    [raised |-> "", procs |-> live, target |-> target,
                     text |-> <<Cross, "Error opening '">> \o app_name.s \o <<"'">>]

(***************************************************************************)
(* ShellAssistant.execute_command(cmd_type, params).  An outcome is        *)
(* [raised, text, recent_pids, procs, calls]: the exception that left the  *)
(* code ("" when it returned), the text returned, recent_pids and the      *)
(* process table as the code left them, and the ProcessManager calls made. *)
(* o is what the operating system does during the call.                    *)
(***************************************************************************)
DefaultCount == 5
MinCount == 1
MaxCount == 20
MaxShown == 5

Call(op, args, pids, text) ==
    [op |-> op, args |-> args, pids |-> pids, text |-> text, signals |-> <<>>]

\* a call of kill_process(pid) that returned or raised done
KillCall(pid, done) ==
    [op |-> "kill_process", args |-> <<JNum(pid)>>, pids |-> <<>>, text |-> done.text,
     signals |-> done.signals]

Ret(text, recent, live, made) ==
    [raised |-> "", text |-> text, recent_pids |-> recent, procs |-> live, calls |-> made]
Exc(exception, recent, live, made) ==
    [raised |-> exception, text |-> <<>>, recent_pids |-> recent, procs |-> live,
     calls |-> made]

Mark(r, sign) == IF r = "main" THEN <<sign>> ELSE <<>>

\* mutant: only the upper limit is applied
ClampCountAbove(count) == IF count < MaxCount THEN count ELSE MaxCount

\* count = max(1, min(count, 20))
ClampCount(count) ==
    LET low == IF count < MaxCount THEN count ELSE MaxCount
    IN  IF low > MinCount THEN low ELSE MinCount

RECURSIVE ProcessLines(_, _)
ProcessLines(pids, i) ==
    IF i > Len(pids) THEN <<>>
    ELSE IntToStr(i) \o <<". ">> \o ProcName[pids[i]] \o <<" PID ">>
         \o IntToStr(pids[i]) \o <<"\n">> \o ProcessLines(pids, i + 1)

\* mutant: the pids of a listing are added to the ones kept
TopProcessesMerging(r, params, recent, live, o) ==
    IF params.t # "obj" THEN Exc("AttributeError", recent, live, <<>>)
    ELSE LET c == IntOf(DictGet(params, <<"count">>, JNum(DefaultCount)))
             count == ClampCount(c.n)
             sort_by == DictGet(params, <<"sort_by">>, JStr(<<"cpu">>))
             processes == get_top_processes(count, sort_by, live, o.fails)
             made == <<Call("get_top_processes", <<JNum(count), sort_by>>,
                            processes.pids, <<>>)>>
         IN  IF c.exc # "" THEN Exc(c.exc, recent, live, <<>>)
             ELSE IF processes.error
             THEN Ret(<<"Error: ", "psutil error">>, recent, live, made)
             ELSE Ret(<<"Top ">> \o IntToStr(count), recent \o processes.pids, live, made)

\* mutant: the pids of a listing are written over the ones kept, one by one
TopProcessesOverwriting(r, params, recent, live, o) ==
    IF params.t # "obj" THEN Exc("AttributeError", recent, live, <<>>)
    ELSE LET c == IntOf(DictGet(params, <<"count">>, JNum(DefaultCount)))
             count == ClampCount(c.n)
             sort_by == DictGet(params, <<"sort_by">>, JStr(<<"cpu">>))
             processes == get_top_processes(count, sort_by, live, o.fails)
             made == <<Call("get_top_processes", <<JNum(count), sort_by>>,
                            processes.pids, <<>>)>>
             listed == processes.pids
                          \o SubSeq(recent, Len(processes.pids) + 1, Len(recent))
         IN  IF c.exc # "" THEN Exc(c.exc, recent, live, <<>>)
             ELSE IF processes.error
             THEN Ret(<<"Error: ", "psutil error">>, recent, live, made)
             ELSE IF sort_by.t # "str"
             THEN Exc("AttributeError", listed, live, made)
             ELSE Ret(<<"Top ">> \o IntToStr(count), listed, live, made)

\* cmd_type == 'top_processes'
TopProcesses(r, params, recent, live, o) ==
    IF params.t # "obj" THEN Exc("AttributeError", recent, live, <<>>)
    ELSE LET c == IntOf(DictGet(params, <<"count">>, JNum(DefaultCount)))
             count == ClampCount(c.n)
             sort_by == DictGet(params, <<"sort_by">>, JStr(<<"cpu">>))
             processes == get_top_processes(count, sort_by, live, o.fails)
             made == <<Call("get_top_processes", <<JNum(count), sort_by>>,
                            processes.pids, <<>>)>>
             listed == IF r = "main" THEN processes.pids ELSE recent
         IN  IF c.exc # "" THEN Exc(c.exc, recent, live, <<>>)
             ELSE IF processes.error
             THEN Ret(<<"Error: ", "psutil error">>, recent, live, made)
             ELSE IF sort_by.t # "str"
             THEN Exc("AttributeError", listed, live, made)
             ELSE Ret(<<"Top ">> \o IntToStr(count) \o <<" processes by ">>
                          \o Upper(sort_by.s) \o <<":\n">>
                          \o ProcessLines(processes.pids, 1),
                      listed, live, made)

\* str(p).startswith(pid_str)
StartsWith(s, prefix) ==
    Len(prefix) <= Len(s) /\ SubSeq(s, 1, Len(prefix)) = prefix

RECURSIVE ListText(_)
ListText(pids) ==
    IF pids = <<>> THEN <<>>
    ELSE IF Len(pids) = 1 THEN IntToStr(pids[1])
    ELSE IntToStr(pids[1]) \o <<", ">> \o ListText(Tail(pids))

\* mutant: every recent pid counts as a match
FuzzyRecoveryAnyRecent(pid_int, first, recent, o, made) ==
    IF Contains(Lower(first.text), "not found") /\ recent # <<>>
    THEN IF Len(recent) = 1
         THEN LET second == kill_process("main", recent[1], first.procs, o.kill2)
              IN  Ret(second.text, recent, second.procs,
                      Append(made, KillCall(recent[1], second)))
         ELSE Ret(<<Cross, "PID ">> \o IntToStr(pid_int) \o <<" ambiguous. Matches: ", "[">>
                      \o ListText(Take(recent, MaxShown)) \o <<"]">>,
                  recent, first.procs, made)
    ELSE Ret(first.text, recent, first.procs, made)

\* main.py: the recovery after kill_process(pid_int) returned first
FuzzyRecovery(pid_int, first, recent, o, made) ==
    IF Contains(Lower(first.text), "not found") /\ recent # <<>>
    THEN LET pid_str == IntToStr(pid_int)
             matches == SelectSeq(recent, LAMBDA p : StartsWith(IntToStr(p), pid_str))
         IN  IF Len(matches) = 1
             THEN LET matched_pid == matches[1]
                      second == kill_process("main", matched_pid, first.procs, o.kill2)
                      all == Append(made, KillCall(matched_pid, second))
                  IN  IF second.raised # ""
                      THEN Exc(second.raised, recent, second.procs, all)
                      ELSE IF Contains(Lower(second.text), "terminated")
                      THEN Ret(<<Tick, "Matched ">> \o pid_str \o <<"* -> ">>
                                   \o IntToStr(matched_pid) \o <<". ">> \o second.text,
                               recent, second.procs, all)
                      ELSE Ret(second.text, recent, second.procs, all)
             ELSE IF Len(matches) > 1
             THEN Ret(<<Cross, "PID ">> \o pid_str \o <<" ambiguous. Matches: ", "[">>
                          \o ListText(Take(matches, MaxShown)) \o <<"]">>,
                      recent, first.procs, made)
             ELSE Ret(first.text, recent, first.procs, made)
    ELSE Ret(first.text, recent, first.procs, made)

\* mutant: the "if not pid" check is left out
KillProcessUnchecked(r, params, recent, live, o) ==
    IF params.t # "obj" THEN Exc("AttributeError", recent, live, <<>>)
    ELSE LET pid_int == IntOf(DictGet(params, <<"pid">>, None))
             first == kill_process(r, pid_int.n, live, o.kill1)
             made == <<KillCall(pid_int.n, first)>>
         IN  IF pid_int.exc # "" THEN Exc(pid_int.exc, recent, live, <<>>)
             ELSE IF first.raised # "" THEN Exc(first.raised, recent, first.procs, made)
             ELSE Ret(first.text, recent, first.procs, made)

\* cmd_type == 'kill_process'
KillProcess(r, params, recent, live, o) ==
    IF params.t # "obj" THEN Exc("AttributeError", recent, live, <<>>)
    ELSE LET pid == DictGet(params, <<"pid">>, None)
             pid_int == IntOf(pid)
             first == kill_process(r, pid_int.n, live, o.kill1)
             made == <<KillCall(pid_int.n, first)>>
         IN  IF ~Truthy(pid)
             THEN Ret(IF r = "main" THEN <<Cross, "No PID specified">>
                      ELSE <<"Please specify a PID">>, recent, live, <<>>)
             ELSE IF pid_int.exc # "" THEN Exc(pid_int.exc, recent, live, <<>>)
             ELSE IF first.raised # "" THEN Exc(first.raised, recent, first.procs, made)
             ELSE IF r = "main" THEN FuzzyRecovery(pid_int.n, first, recent, o, made)
             ELSE Ret(first.text, recent, first.procs, made)

\* mutant: the pids that were terminated are taken out of the recent pids
KillByNameForgetting(r, params, recent, live, o) ==
    IF params.t # "obj" THEN Exc("AttributeError", recent, live, <<>>)
    ELSE LET name == DictGet(params, <<"name">>, None)
             exclude == IF r = "main" THEN None
                        ELSE DictGet(params, <<"exclude">>, JArr(<<>>))
             done == kill_by_name(r, name, exclude, live, o.denied)
             gone == {done.killed[i] : i \in 1..Len(done.killed)}
         IN  IF ~Truthy(name)
             THEN Ret(<<Cross, "No process name specified">>, recent, live, <<>>)
             ELSE Ret(done.text, SelectSeq(recent, LAMBDA p : p \notin gone), done.procs,
                      <<Call("kill_by_name", <<name, exclude>>, done.killed, done.text)>>)

\* cmd_type == 'kill_by_name': work.py passes params' exclude on, main.py
\* calls kill_by_name(name) alone
KillByName(r, params, recent, live, o) ==
    IF params.t # "obj" THEN Exc("AttributeError", recent, live, <<>>)
    ELSE LET name == DictGet(params, <<"name">>, None)
             exclude == IF r = "main" THEN None
                        ELSE DictGet(params, <<"exclude">>, JArr(<<>>))
             done == kill_by_name(r, name, exclude, live, o.denied)
         IN  IF ~Truthy(name)
             THEN Ret(IF r = "main" THEN <<Cross, "No process name specified">>
                      ELSE <<"Please specify a process name">>, recent, live, <<>>)
             ELSE Ret(done.text, recent, done.procs,
                      <<Call("kill_by_name", <<name, exclude>>, done.killed, done.text)>>)

\* cmd_type == 'system_info'
SystemInfo(r, params, recent, live, o) ==
    LET made == <<Call("get_system_info", <<>>, <<>>, <<>>)>>
    IN  IF o.fails THEN Ret(<<"Error: ", "psutil error">>, recent, live, made)
        ELSE Ret(<<(IF r = "main" THEN "System Status:" ELSE "System Information:")>>,
                 recent, live, made)

\* cmd_type == 'process_info'
ProcessInfo(r, params, recent, live, o) ==
    IF params.t # "obj" THEN Exc("AttributeError", recent, live, <<>>)
    ELSE LET pid == DictGet(params, <<"pid">>, None)
             pid_int == IntOf(pid)
             info == get_process_info(pid_int.n, live, o.fails)
             made == <<Call("get_process_info", <<JNum(pid_int.n)>>, <<>>, info.text)>>
         IN  IF ~Truthy(pid)
             THEN Ret(IF r = "main" THEN <<Cross, "No PID specified">>
                      ELSE <<"Please specify a PID">>, recent, live, <<>>)
             ELSE IF pid_int.exc # "" THEN Exc(pid_int.exc, recent, live, <<>>)
             ELSE IF info.error THEN Ret(<<"Error: ">> \o info.text, recent, live, made)
             ELSE Ret(<<"Process: ">> \o info.name \o <<" (PID ">> \o PyStr(pid) \o <<")">>,
                      recent, live, made)

\* cmd_type == 'list_files'
ListFiles(r, params, recent, live, o) ==
    IF params.t # "obj" THEN Exc("AttributeError", recent, live, <<>>)
    ELSE LET path == DictGet(params, <<"path">>, JStr(<<".">>))
             text == list_files(r, path, o.files)
         IN  Ret(text, recent, live, <<Call("list_files", <<path>>, <<>>, text)>>)

\* cmd_type == 'open_app' (main.py)
OpenApp(params, recent, live, o) ==
    IF params.t # "obj" THEN Exc("AttributeError", recent, live, <<>>)
    ELSE LET app_name == DictGet(params, <<"app_name">>, None)
             opened == open_application(app_name, live, o.launch, o.spawn)
             made == <<Call("open_application", <<app_name>>, <<>>, opened.target)>>
         IN  IF ~Truthy(app_name)
             THEN Ret(<<Cross, "No application name specified">>, recent, live, <<>>)
             ELSE IF opened.raised # "" THEN Exc(opened.raised, recent, live, made)
             ELSE Ret(opened.text, recent, opened.procs, made)

\* mutant: the commands are looked up in a table and an absent one raises
UnknownCommandKeyError(r, cmd_type, recent, live) ==
    Exc("KeyError", recent, live, <<>>)

\* the else branch
UnknownCommand(r, cmd_type, recent, live) ==
    Ret(Mark(r, Cross) \o <<"Unknown command: ">> \o PyStr(cmd_type), recent, live, <<>>)

\* the commands the if/elif chain of a revision knows
CommandTable(r) ==
    {<<"top_processes">>, <<"kill_process">>, <<"kill_by_name">>, <<"system_info">>,
     <<"process_info">>, <<"list_files">>}
    \cup (IF r = "main" THEN {<<"open_app">>} ELSE {})

\* the try block: the if/elif chain over cmd_type
DispatchBody(r, cmd_type, params, recent, live, o) ==
    IF cmd_type.t # "str" \/ cmd_type.s \notin CommandTable(r)
    THEN UnknownCommand(r, cmd_type, recent, live)
    ELSE CASE cmd_type.s = <<"top_processes">> -> TopProcesses(r, params, recent, live, o)
           [] cmd_type.s = <<"kill_process">> -> KillProcess(r, params, recent, live, o)
           [] cmd_type.s = <<"kill_by_name">> -> KillByName(r, params, recent, live, o)
           [] cmd_type.s = <<"system_info">> -> SystemInfo(r, params, recent, live, o)
           [] cmd_type.s = <<"process_info">> -> ProcessInfo(r, params, recent, live, o)
           [] cmd_type.s = <<"list_files">> -> ListFiles(r, params, recent, live, o)
           [] OTHER -> OpenApp(params, recent, live, o)

\* mutant: the handler names psutil's exceptions only
CatchPsutilErrors(r, outcome) == outcome

\* except Exception as e: return f"... error: {str(e)}"
CatchExecution(r, outcome) ==
    IF outcome.raised = "" THEN outcome
    ELSE Ret((IF r = "main" THEN <<Cross, "Execution error: ">>
              ELSE <<"Error executing command: ">>) \o <<outcome.raised>>,
             outcome.recent_pids, outcome.procs, outcome.calls)

execute_command(r, cmd_type, params, recent, live, o) ==
    CatchExecution(r, DispatchBody(r, cmd_type, params, recent, live, o))

(***************************************************************************)
(* Dispatch on its own: between two dispatches the operating system starts *)
(* and ends processes; a dispatch runs execute_command on a request; the   *)
(* turn loop then shows the result and is ready for the next one.          *)
(***************************************************************************)
Obj1(k, v) == JObj(<<Member(<<k>>, v)>>)
Obj2(k1, v1, k2, v2) == JObj(<<Member(<<k1>>, v1), Member(<<k2>>, v2)>>)
Word(w) == JStr(<<w>>)

CmdTypes ==
    {JStr(c) : c \in CommandTable("main")}
    \cup {Word("reboot-system"), Word("KILL_PROCESS"), JStr(<<>>), JNum(7), None}

\* the parameter values tried with every command
CommonParams ==
    { EmptyDict, None, JArr(<<Elem(JNum(43))>>),
      JObj(<<Member(<<"pid">>, JNum(43)), Member(<<"name">>, Word("chrome")),
             Member(<<"app_name">>, Word("notepad")), Member(<<"count">>, JNum(2))>>) }

TopParams ==
    { Obj1("count", JNum(0)), Obj1("count", JNum(50)), Obj1("count", JNum(-5)),
      Obj1("count", JNum(1)), Obj1("count", JNum(20)), Obj1("count", JNum(21)),
      Obj1("count", JStr(<<" ", "3">>)), Obj1("count", Word("three")),
      Obj1("count", None), Obj1("sort_by", Word("memory")),
      Obj2("count", JNum(2), "sort_by", Word("memory")),
      Obj2("count", JNum(2), "sort_by", JNum(1)),
      Obj2("count", JNum(2), "sort_by", Word("name")) }

KillParams ==
    { Obj1("pid", JNum(4)), Obj1("pid", JNum(9)), Obj1("pid", JNum(43)),
      Obj1("pid", JNum(44)), Obj1("pid", JNum(0)), Obj1("pid", JNum(-1)),
      Obj1("pid", JStr(<<"4", "3">>)), Obj1("pid", JStr(<<"0">>)),
      Obj1("pid", Word("chrome")), Obj1("pid", JStr(<<>>)), Obj1("pid", None),
      Obj1("pid", JArr(<<Elem(JNum(43))>>)), Obj1("name", Word("chrome")) }

NameParams ==
    { Obj1("name", Word("chrome")), Obj1("name", Word("CHROME")),
      Obj1("name", Word("helper")), Obj1("name", Word("found")),
      Obj1("name", JStr(<<>>)), Obj1("name", JNum(5)), Obj1("name", None),
      Obj1("pid", JNum(43)),
      Obj2("name", Word("chrome"), "exclude", JArr(<<Elem(Word("helper"))>>)),
      Obj2("name", Word("chrome"), "exclude", JArr(<<Elem(JNum(1)), Elem(Word("helper"))>>)),
      Obj2("name", Word("chrome"), "exclude", Word("Helper")),
      Obj2("name", Word("chrome"), "exclude", JNum(5)),
      Obj2("name", Word("chrome"), "exclude", None) }

PathParams == { Obj1("path", Word("C:/Users")), Obj1("path", JNum(5)), Obj1("path", None) }

AppParams ==
    { Obj1("app_name", Word("notepad")), Obj1("app_name", JStr(<<"notepad", "++">>)),
      Obj1("app_name", Word("vscode")), Obj1("app_name", Word("gimp")),
      Obj1("app_name", JStr(<<>>)), Obj1("app_name", JNum(5)), Obj1("app_name", None),
      Obj1("name", Word("notepad")) }

Requests ==
    [cmd_type : CmdTypes, params : CommonParams]
    \cup [cmd_type : {Word("top_processes")}, params : TopParams]
    \cup [cmd_type : {Word("kill_process"), Word("process_info")}, params : KillParams]
    \cup [cmd_type : {Word("kill_by_name")}, params : NameParams]
    \cup [cmd_type : {Word("list_files")}, params : PathParams]
    \cup [cmd_type : {Word("open_app")}, params : AppParams]

Calm ==
    [kill1 |-> "terminated", kill2 |-> "terminated", fails |-> FALSE, denied |-> {},
     files |-> "listing", launch |-> "opened", spawn |-> 0]

\* what the operating system may do during the dispatch of a command
Weather(cmd_type) ==
    IF cmd_type = Word("kill_process")
    THEN {[Calm EXCEPT !.kill1 = a] : a \in KillOutcomes}
         \cup {[Calm EXCEPT !.kill1 = "vanished", !.kill2 = b] : b \in KillOutcomes}
    ELSE IF cmd_type = Word("kill_by_name")
    THEN {[Calm EXCEPT !.denied = d] : d \in SUBSET Pids}
    ELSE IF cmd_type = Word("list_files")
    THEN {[Calm EXCEPT !.files = f] : f \in FileOutcomes}
    ELSE IF cmd_type = Word("open_app")
    THEN {[Calm EXCEPT !.launch = l, !.spawn = s] : l \in LaunchOutcomes, s \in Pids \cup {0}}
    ELSE {[Calm EXCEPT !.fails = f] : f \in BOOLEAN}

SomeHistory ==
    << [role |-> "user", content |-> <<"kill", " ", "4">>],
       [role |-> "assistant", content |-> <<"Terminating.">>] >>

InitDispatch ==
    /\ assistant_message = <<>>
    /\ extracted = NotExtracted
    /\ rev \in {"main", "work"}
    /\ conversation_history = SomeHistory
    /\ recent_pids = <<>>
    /\ voice_mode = TRUE
    /\ procs \in SUBSET Pids
    /\ request = NoRequest
    /\ calls = <<>>
    /\ result = NoResult
    /\ RestIdle

\* a process starts
OsSpawn ==
    /\ request = NoRequest
    /\ \E p \in Pids \ procs : procs' = procs \cup {p}
    /\ UNCHANGED <<chatVars, restVars, rev, conversation_history, recent_pids, voice_mode,
                   request, calls, result>>

\* a process ends by itself
OsExit ==
    /\ request = NoRequest
    /\ \E p \in procs : procs' = procs \ {p}
    /\ UNCHANGED <<chatVars, restVars, rev, conversation_history, recent_pids, voice_mode,
                   request, calls, result>>

\* mutant: a dispatch may begin while the result of another is still to be
\* shown
DispatchOfOverlapping(requests) ==
    \E req \in requests :
        \E o \in Weather(req.cmd_type) :
            \E out \in {execute_command(rev, req.cmd_type, req.params,
                                        recent_pids, procs, o)} :
                /\ request' = req
                /\ result' = [raised |-> out.raised, text |-> out.text]
                /\ calls' = out.calls
                /\ recent_pids' = out.recent_pids
                /\ procs' = out.procs
                /\ UNCHANGED <<chatVars, restVars, rev, conversation_history, voice_mode>>

\* result = self.execute_command(command, params)
DispatchOf(requests) ==
    /\ request = NoRequest
    /\ \E req \in requests :
        \E o \in Weather(req.cmd_type) :
            \E out \in {execute_command(rev, req.cmd_type, req.params,
                                        recent_pids, procs, o)} :
                /\ request' = req
                /\ result' = [raised |-> out.raised, text |-> out.text]
                /\ calls' = out.calls
                /\ recent_pids' = out.recent_pids
                /\ procs' = out.procs
    /\ UNCHANGED <<chatVars, restVars, rev, conversation_history, voice_mode>>

Dispatch == DispatchOf(Requests)

\* the turn loop shows the result and goes on to the next utterance
ShowResult ==
    /\ request # NoRequest
    /\ request' = NoRequest
    /\ calls' = <<>>
    /\ result' = NoResult
    /\ UNCHANGED <<chatVars, restVars, rev, conversation_history, recent_pids, voice_mode,
                   procs>>

NextDispatch == OsSpawn \/ OsExit \/ Dispatch \/ ShowResult

SpecDispatch == InitDispatch /\ [][NextDispatch]_vars

(***************************************************************************)
(* Claims about execute_command                                            *)
(***************************************************************************)
Dispatched == request # NoRequest

\* the parameter a command cannot do without
RequiredParam(cmd) ==
    CASE cmd = <<"kill_process">> -> <<"pid">>
      [] cmd = <<"process_info">> -> <<"pid">>
      [] cmd = <<"kill_by_name">> -> <<"name">>
      [] cmd = <<"open_app">> -> <<"app_name">>
      [] OTHER -> <<>>

\* the result that tells which parameter is missing
MissingParamText(r, cmd) ==
    CASE cmd = <<"kill_by_name">> ->
            IF r = "main" THEN <<Cross, "No process name specified">>
            ELSE <<"Please specify a process name">>
      [] cmd = <<"open_app">> -> <<Cross, "No application name specified">>
      [] OTHER ->
            IF r = "main" THEN <<Cross, "No PID specified">>
            ELSE <<"Please specify a PID">>

\* the request is one of the four commands of the revision's command table
\* with a parameter mapping that lacks the required parameter
LacksRequired(r, req) ==
    /\ req.cmd_type.t = "str"
    /\ req.cmd_type.s \in CommandTable(r)
    /\ RequiredParam(req.cmd_type.s) # <<>>
    /\ req.params.t = "obj"
    /\ ~HasKey(req.params, RequiredParam(req.cmd_type.s))

\* C7: for kill_process, process_info, kill_by_name and open_app, a parameter
\* mapping without the required parameter (pid, pid, name, app_name) makes
\* execute_command return the result naming the missing parameter, and no
\* ProcessManager operation is called
C7_MissingParamReported ==
    (Dispatched /\ LacksRequired(rev, request))
        => /\ result.raised = ""
           /\ result.text = MissingParamText(rev, request.cmd_type.s)
           /\ calls = <<>>

\* C7 witness: kill_process was dispatched with a non-empty mapping that has
\* a name and no pid, while the named process was running
C7_Witness ==
    /\ Dispatched
    /\ request.cmd_type = Word("kill_process")
    /\ request.params = Obj1("name", Word("chrome"))
    /\ 44 \in procs
    /\ result.text = MissingParamText(rev, <<"kill_process">>)
    /\ calls = <<>>

\* the command identifier is outside the revision's command table
IsUnknown(r, cmd_type) == cmd_type.t # "str" \/ cmd_type.s \notin CommandTable(r)

\* C8: a command identifier outside the command table gets the unknown-command
\* result, no ProcessManager operation is called, and the transcript, the
\* recent pids and the voice-mode flag are left as they were
C8_UnknownCommandInert ==
    [][(request = NoRequest /\ request' # NoRequest
            /\ IsUnknown(rev, request'.cmd_type))
        => /\ result'.raised = ""
           /\ result'.text = Mark(rev, Cross) \o <<"Unknown command: ">>
                                 \o PyStr(request'.cmd_type)
           /\ calls' = <<>>
           /\ UNCHANGED <<conversation_history, recent_pids, voice_mode>>]_vars

\* C8 witness: "reboot-system" was dispatched after a listing had filled the
\* recent pids
C8_Witness ==
    /\ Dispatched
    /\ request.cmd_type = Word("reboot-system")
    /\ recent_pids # <<>>
    /\ calls = <<>>
    /\ Contains(result.text, "Unknown command: ")

\* C9: execute_command never lets an exception out: whatever the command
\* identifier, the parameters and the failure of a ProcessManager operation,
\* it returns a text
C9_NeverPropagates ==
    Dispatched => result.raised = ""

\* C9 witness: psutil raised an error kill_process does not handle while a
\* running process was being terminated, and the caller got a text
C9_Witness ==
    /\ Dispatched
    /\ request.cmd_type = Word("kill_process")
    /\ Len(calls) = 1
    /\ result.raised = ""
    /\ Len(result.text) > 0
    /\ result.text[Len(result.text)] = "Exception"

\* the directive asks for a listing with an integer count or none
CountGiven(req) ==
    /\ req.cmd_type = Word("top_processes")
    /\ req.params.t = "obj"
    /\ HasKey(req.params, <<"count">>) => DictGet(req.params, <<"count">>, None).t = "num"

\* C10: the count handed to get_top_processes is max(1, min(count, 20)), an
\* omitted count is 5, an omitted sort key is cpu, and the listing has at most
\* that many entries
C10_CountClamped ==
    (Dispatched /\ CountGiven(request))
        => LET count == DictGet(request.params, <<"count">>, JNum(5)).n
               expected == Max({1, Min({count, 20})})
               sort_by == DictGet(request.params, <<"sort_by">>, JStr(<<"cpu">>))
           IN  /\ Len(calls) = 1
               /\ calls[1].op = "get_top_processes"
               /\ calls[1].args = <<JNum(expected), sort_by>>
               /\ Len(calls[1].pids) <= expected

\* C10 witness: count 0 was asked for while several processes were running,
\* and exactly one was listed
C10_Witness ==
    /\ Dispatched
    /\ request.cmd_type = Word("top_processes")
    /\ request.params = Obj1("count", JNum(0))
    /\ Cardinality(procs) >= 2
    /\ Len(calls) = 1
    /\ calls[1].args = <<JNum(1), JStr(<<"cpu">>)>>
    /\ Len(calls[1].pids) = 1

\* C10 witness of the upper limit: count 50 was asked for and 20 handed on
C10_WitnessAbove ==
    /\ Dispatched
    /\ request.params = Obj1("count", JNum(50))
    /\ Len(calls) = 1
    /\ calls[1].args[1] = JNum(20)

(***************************************************************************)
(* Claims about the fuzzy PID recovery of kill_process (main.py)           *)
(***************************************************************************)
\* kill_process was dispatched with a pid that int() accepts and that is
\* not false
KillRequested ==
    /\ Dispatched
    /\ request.cmd_type = Word("kill_process")
    /\ request.params.t = "obj"
    /\ Truthy(DictGet(request.params, <<"pid">>, None))
    /\ IntOf(DictGet(request.params, <<"pid">>, None)).exc = ""

RequestedPid == IntOf(DictGet(request.params, <<"pid">>, None)).n

\* the entries of the recent pids whose decimal string starts with the
\* decimal string of pid, in their order
PrefixMatches(recent, pid) ==
    SelectSeq(recent, LAMBDA p : StartsWith(IntToStr(p), IntToStr(pid)))

\* the first termination attempt was made and reported not found for the
\* requested pid
FirstNotFound ==
    /\ KillRequested
    /\ Len(calls) >= 1
    /\ calls[1].op = "kill_process"
    /\ calls[1].args = <<JNum(RequestedPid)>>
    /\ calls[1].text = KillText(rev, "notfound", RequestedPid)

\* the text reports that matched stood in for the requested pid
ReportsSubstitution(text, pid, matched) ==
    /\ StartsWith(text, <<Tick, "Matched ">> \o IntToStr(pid) \o <<"* -> ">>
                            \o IntToStr(matched))

(***************************************************************************)
(* The recovery on its own.  recent_pids is whatever an earlier listing    *)
(* left: pids of processes of which some have exited since (the pids 431   *)
(* and up stand for those) and some are still running.                     *)
(***************************************************************************)
MaxStale == 6
OldListing == [i \in 1..MaxStale |-> 430 + i] \o <<43, 9>>

\* the entries of seq at the positions in S, in their order
RECURSIVE Pick(_, _)
Pick(seq, S) ==
    IF seq = <<>> THEN <<>>
    ELSE (IF Len(seq) \in S THEN Pick(SubSeq(seq, 1, Len(seq) - 1), S) \o <<seq[Len(seq)]>>
          ELSE Pick(SubSeq(seq, 1, Len(seq) - 1), S))

RecentListings == {Pick(OldListing, S) : S \in SUBSET (1..Len(OldListing))}

InitRecovery ==
    /\ assistant_message = <<>>
    /\ extracted = NotExtracted
    /\ rev = "main"
    /\ conversation_history = SomeHistory
    /\ recent_pids \in RecentListings
    /\ voice_mode = TRUE
    /\ procs \in SUBSET Pids
    /\ request = NoRequest
    /\ calls = <<>>
    /\ result = NoResult
    /\ RestIdle

KillDispatch == DispatchOf([cmd_type : {Word("kill_process")}, params : KillParams])

NextRecovery == KillDispatch \/ ShowResult

SpecRecovery == InitRecovery /\ [][NextRecovery]_vars

\* C11 (as claimed): when the first attempt reports not found and exactly one
\* recent pid starts with the requested pid's digits, termination is retried
\* against that pid, and whenever the retry ends the process (terminated or
\* force killed) the result reports the substitution
C11_SingleMatchSubstitution ==
    (rev = "main" /\ FirstNotFound /\ Len(PrefixMatches(recent_pids, RequestedPid)) = 1)
        => LET matched == PrefixMatches(recent_pids, RequestedPid)[1]
           IN  /\ Len(calls) = 2
               /\ calls[2].op = "kill_process"
               /\ calls[2].args = <<JNum(matched)>>
               /\ calls[2].text \in {KillText(rev, "terminated", matched),
                                     KillText(rev, "killed", matched)}
                    => ReportsSubstitution(result.text, RequestedPid, matched)

\* C12: when the first attempt reports not found and more than one recent
\* pid starts with the requested pid's digits, the result is the ambiguity
\* report listing the first matches in the order of the recent pids, five at
\* most, and no further termination attempt is made in that dispatch
C12_AmbiguousNothingKilled ==
    (rev = "main" /\ FirstNotFound /\ Len(PrefixMatches(recent_pids, RequestedPid)) > 1)
        => LET matches == PrefixMatches(recent_pids, RequestedPid)
               shown == SubSeq(matches, 1, Min({5, Len(matches)}))
           IN  /\ result.raised = ""
               /\ result.text = <<Cross, "PID ">> \o IntToStr(RequestedPid)
                                    \o <<" ambiguous. Matches: ", "[">>
                                    \o ListText(shown) \o <<"]">>
               /\ Len(calls) = 1

\* C12 witness: pid 43 is asked for while it is not running and seven recent
\* pids start with 43; the report lists five of them
C12_Witness ==
    /\ FirstNotFound
    /\ RequestedPid = 43
    /\ Len(PrefixMatches(recent_pids, 43)) > 5
    /\ Len(calls) = 1
    /\ result.text = <<Cross, "PID ", "4", "3", " ambiguous. Matches: ", "[">>
                        \o ListText(SubSeq(PrefixMatches(recent_pids, 43), 1, 5))
                        \o <<"]">>

\* C13: when the first attempt reports not found and the recent pids are
\* empty or none of them starts with the requested pid's digits, the result
\* is the not-found result for the requested pid and exactly one termination
\* attempt was made
C13_NoMatchKeepsNotFound ==
    (FirstNotFound /\ Len(PrefixMatches(recent_pids, RequestedPid)) = 0)
        => /\ result.raised = ""
           /\ result.text = KillText(rev, "notfound", RequestedPid)
           /\ Len(calls) = 1

\* C13 witness: the pid asked for is not running and the recent pids, though
\* not empty, hold no pid starting with its digits
C13_Witness ==
    /\ FirstNotFound
    /\ recent_pids # <<>>
    /\ Len(PrefixMatches(recent_pids, RequestedPid)) = 0
    /\ result.text = KillText("main", "notfound", RequestedPid)
    /\ Len(calls) = 1

\* C19 (as claimed): a second termination attempt is made only if the first
\* one reported not found for the requested pid; when the first attempt
\* terminated the process, was denied or timed out, there is exactly one
\* attempt, against the requested pid, whatever the name of the process
C19_RetryOnlyAfterNotFound ==
    (rev = "main" /\ KillRequested /\ Len(calls) >= 1
        /\ calls[1].text # KillText(rev, "notfound", RequestedPid))
        => /\ Len(calls) = 1
           /\ calls[1].op = "kill_process"
           /\ calls[1].args = <<JNum(RequestedPid)>>

(***************************************************************************)
(* Claims about kill_by_name                                               *)
(***************************************************************************)
\* the strings of the exclude list carried in the directive's params
ExcludedStrings(params) ==
    LET exclude == DictGet(params, <<"exclude">>, JArr(<<>>))
    IN  IF exclude.t # "arr" THEN {}
        ELSE {exclude.m[i].v.s : i \in {j \in 1..Len(exclude.m) : exclude.m[j].v.t = "str"}}

\* the process name contains one of the excluded strings, whatever the case
NameExcluded(params, pid) ==
    \E ex \in ExcludedStrings(params) : IsInfix(Lower(ex), Lower(ProcName[pid]))

\* C14 (as claimed): kill_by_name dispatched with an exclude list in the
\* params never terminates, and never reports as terminated, a process whose
\* name contains an excluded string in any letter case (the pids of the call
\* are the processes it terminated, which are the ones its text reports)
C14_ExcludedNeverKilled ==
    (Dispatched /\ request.cmd_type = Word("kill_by_name") /\ request.params.t = "obj")
        => \A i \in 1..Len(calls) :
               \A j \in 1..Len(calls[i].pids) :
                   ~NameExcluded(request.params, calls[i].pids[j])

(***************************************************************************)
(* The turn loop (main.py _listen_loop, work.py run_interactive) and       *)
(* ConversationalAssistant.chat as a whole.  A turn hears an utterance,    *)
(* handles a reserved keyword itself or calls chat, then executes the      *)
(* command chat returned, if any, and goes back to listening.              *)
(***************************************************************************)
\* the words of the model in whose spelling word occurs
Within(word) ==
    CASE word = "exit" -> {"exit", "exit.exe"}
      [] word = "quit" -> {"quit", "quitter.exe"}
      [] word = "bye" -> {"bye", "goodbye"}
      [] word = "end" -> {"end", "pretend"}
      [] OTHER -> {word}

\* any(word in text for word in words)
AnyWithin(words, text) ==
    \E i \in 1..Len(text) : \E w \in words : text[i] \in Within(w)

KillKeywords == {"kill", "terminate", "stop", "end", "close", "quit"}
ExitWords == {"exit", "quit", "bye", "goodbye"}

\* re.findall(r'\b(\d{2,6})\b', s): the <<first, last>> positions of the
\* runs of 2 to 6 digits that stand between word boundaries
DigitRuns(s) ==
    LET Boundary(k) == k < 1 \/ k > Len(s) \/ IsSpace(s[k])
    IN  {ij \in (1..Len(s)) \X (1..Len(s)) :
            /\ ij[2] - ij[1] + 1 \in 2..6
            /\ \A k \in ij[1]..ij[2] : s[k] \in Digits
            /\ Boundary(ij[1] - 1)
            /\ Boundary(ij[2] + 1)}

\* len(s.split())
SplitCount(s) ==
    Cardinality({i \in 1..Len(s) : ~IsSpace(s[i]) /\ (i = 1 \/ IsSpace(s[i - 1]))})

\* main.py: the user message with the first number marked as a PID
Annotate(user_message) ==
    LET numbers == DigitRuns(user_message)
        has_kill_word == AnyWithin(KillKeywords, Lower(user_message))
        is_just_number == SplitCount(user_message) <= 2 /\ numbers # {}
        first == CHOOSE ij \in numbers : \A other \in numbers : ij[1] <= other[1]
    IN  IF numbers # {} /\ (has_kill_word \/ is_just_number)
        THEN user_message \o <<" [PID detected: ">>
                \o SubSeq(user_message, first[1], first[2]) \o <<"]">>
        ELSE user_message

HistoryCap == 20

Msg(role, content) == [role |-> role, content |-> content]
SystemMessage == Msg("system", <<"system_prompt">>)

\* mutant: the transcript is cut to the cap without the newest message
KeepButLast(history) ==
    IF Len(history) > HistoryCap THEN SubSeq(history, 1, HistoryCap) ELSE history

\* if len(h) > 20: h = h[-20:]
Keep(history) ==
    IF Len(history) > HistoryCap
    THEN SubSeq(history, Len(history) - HistoryCap + 1, Len(history))
    ELSE history

\* what the LLM call does: it raises, or it returns a reply
LlmFail == <<"(raises)">>

\* chat(user_message) with llm the outcome of the LLM call:
\* [history, sent, message, outcome]
chat(r, history, user_message, llm) ==
    LET noted == IF r = "main" THEN Annotate(user_message) ELSE user_message
        asked == Append(history, Msg("user", noted))
        messages == <<SystemMessage>> \o asked
    IN  IF llm = LlmFail
        THEN [history |-> asked, sent |-> messages, message |-> <<>>,
              outcome |-> CatchAll(Raise("APIError"))]
        ELSE [history |-> Keep(Append(asked, Msg("assistant", llm))),
              sent |-> messages, message |-> llm,
              outcome |-> ExtractDirective(llm)]

\* mutant: help is not handled by the loop
HandlingWithoutHelp(r, utterance) ==
    LET user_lower == Lower(utterance)
    IN  IF utterance = <<>> THEN "none"
        ELSE IF user_lower \in {<<"exit">>, <<"quit">>} THEN "exit"
        ELSE IF user_lower \in {<<"voice">>, <<"v">>} THEN "voice"
        ELSE "chat"

\* how the turn loop treats an utterance: "none" (nothing heard), "exit",
\* "help", "voice", or "chat" (it goes to the LLM).  main.py ends the session
\* when one of its exit words occurs anywhere in the utterance, work.py when
\* the utterance is exit or quit
Handling(r, utterance) ==
    LET user_lower == Lower(utterance)
    IN  IF utterance = <<>> THEN "none"
        ELSE IF r = "main" /\ AnyWithin(ExitWords, user_lower) THEN "exit"
        ELSE IF r = "work" /\ user_lower \in {<<"exit">>, <<"quit">>} THEN "exit"
        ELSE IF user_lower = <<"help">> THEN "help"
        ELSE IF user_lower \in {<<"voice">>, <<"v">>} THEN "voice"
        ELSE "chat"

\* what the user may say
Utterances ==
    { <<>>, <<"help">>, <<"HELP">>, <<"exit">>, <<"Quit">>, <<"voice">>, <<"v">>,
      <<"kill", " ", "4", "3">>, <<"kill", " ", "quitter.exe">> }

\* what the LLM may answer
TurnReplies ==
    { <<"Done.">>,
      <<"Checking.", " ">> \o EncodeDirective(Word("top_processes"), EmptyDict),
      <<"Terminating.", " ">>
          \o EncodeDirective(Word("kill_process"), Obj1("pid", JNum(43))),
      <<"Hi", " ", OPEN, "[", "7", "]", CLOSE>> }

MaxEarlier == 10
MaxCalls == 2

\* the transcript after k earlier turns, each answered by the LLM
RECURSIVE HistoryAfter(_, _)
HistoryAfter(r, k) ==
    IF k = 0 THEN <<>>
    ELSE chat(r, HistoryAfter(r, k - 1), <<"note", " ">> \o IntToStr(k),
              <<"Noted.">>).history

InitTurns ==
    /\ assistant_message = <<>>
    /\ extracted = NotExtracted
    /\ rev \in {"main", "work"}
    /\ \E k \in 0..MaxEarlier : conversation_history = HistoryAfter(rev, k)
    /\ recent_pids = <<>>
    /\ voice_mode = TRUE
    /\ procs = {43, 44}
    /\ request = NoRequest
    /\ calls = <<>>
    /\ result = NoResult
    /\ RestIdle

\* one pass of the while loop up to the return of chat, the user saying one
\* of utterances and the LLM answering with one of replies or failing
HearOf(utterances, replies) ==
    /\ running
    /\ ~extracted.done
    /\ request = NoRequest
    /\ \E utterance \in utterances :
        /\ user_input' = utterance
        /\ CASE Handling(rev, utterance) = "exit" ->
                    /\ running' = FALSE
                    /\ UNCHANGED <<chatVars, shellVars, sent, llm_calls, tts>>
             [] Handling(rev, utterance) = "voice" ->
                    /\ voice_mode' = ~voice_mode
                    /\ UNCHANGED <<chatVars, rev, conversation_history, recent_pids,
                                   procs, request, calls, result, running, sent,
                                   llm_calls, tts>>
             [] Handling(rev, utterance) = "chat" ->
                    /\ llm_calls < MaxCalls
                    /\ \E llm \in replies \cup {LlmFail} :
                        \E c \in {chat(rev, conversation_history, utterance, llm)} :
                            /\ conversation_history' = c.history
                            /\ sent' = c.sent
                            /\ assistant_message' = c.message
                            /\ extracted' = Returned(c.outcome)
                    /\ llm_calls' = llm_calls + 1
                    /\ UNCHANGED <<rev, recent_pids, voice_mode, procs, request,
                                   calls, result, running, tts>>
             [] OTHER ->
                    UNCHANGED <<chatVars, shellVars, running, sent, llm_calls, tts>>

Hear == HearOf(Utterances, TurnReplies)

\* if command: result = self.execute_command(command, params)
Execute ==
    /\ extracted.done
    /\ Truthy(extracted.command)
    /\ DispatchOf({[cmd_type |-> extracted.command, params |-> extracted.params]})

\* the rest of the pass: the result is shown and the loop listens again
EndTurn ==
    /\ extracted.done
    /\ request # NoRequest \/ ~Truthy(extracted.command)
    /\ extracted' = NotExtracted
    /\ assistant_message' = <<>>
    /\ request' = NoRequest
    /\ calls' = <<>>
    /\ result' = NoResult
    /\ user_input' = <<>>
    /\ UNCHANGED <<rev, conversation_history, recent_pids, voice_mode, procs,
                   running, sent, llm_calls, tts>>

NextTurns == Hear \/ Execute \/ EndTurn

SpecTurns == InitTurns /\ [][NextTurns]_vars

(***************************************************************************)
(* Claims about the transcript                                             *)
(***************************************************************************)
\* C15 (as claimed): in every reachable state the transcript holds at most
\* 20 messages, also after turns in which the LLM call failed
C15_TranscriptWithinCap ==
    Len(conversation_history) <= 20

(***************************************************************************)
(* Claims about the recent pids                                            *)
(***************************************************************************)
\* the listing call of the dispatch reported an error
ListingFailed(text) == text = <<"Error: ", "psutil error">>

\* C16 (as claimed): after every dispatch of top_processes the recent pids
\* are exactly the pids the listing call of that dispatch produced
C16_RecentIsTheListing ==
    (rev = "main" /\ Dispatched /\ request.cmd_type = Word("top_processes")
        /\ Len(calls) = 1)
        => recent_pids = calls[1].pids

\* C16 (amended): a dispatch of top_processes whose listing call returned a
\* listing leaves exactly the pids of that listing, in its order, as the
\* recent pids; one that made no listing call, or whose listing call
\* reported an error, leaves the recent pids as they were
C16_RecentReplacedByListing ==
    [][(rev = "main" /\ request = NoRequest
            /\ request'.cmd_type = Word("top_processes"))
        => IF Len(calls') = 1 /\ ~ListingFailed(result'.text)
           THEN recent_pids' = calls'[1].pids
           ELSE recent_pids' = recent_pids]_vars

\* C16 witness: a listing of one process was dispatched while several were
\* running, and the recent pids are that one pid
C16_Witness ==
    /\ rev = "main"
    /\ Dispatched
    /\ request.cmd_type = Word("top_processes")
    /\ Cardinality(procs) >= 2
    /\ Len(calls) = 1
    /\ recent_pids = calls[1].pids
    /\ Len(recent_pids) = 1

\* C25: no step leaves recent_pids partly written: it is the list it was
\* before, or it is the complete pid list that one listing call of the
\* dispatch returned, also when the dispatch failed after the listing
C25_RecentNeverPartial ==
    [][\/ recent_pids' = recent_pids
       \/ \E i \in 1..Len(calls') :
            /\ calls'[i].op = "get_top_processes"
            /\ recent_pids' = calls'[i].pids
            /\ calls'[i].pids =
                    get_top_processes(calls'[i].args[1].n, calls'[i].args[2],
                                      procs, FALSE).pids]_vars

\* C25 witness: a listing was dispatched over another one, in another order,
\* and failed after the listing call: recent_pids is the new list
C25_Witness ==
    /\ rev = "main"
    /\ Dispatched
    /\ result.text = <<Cross, "Execution error: ", "AttributeError">>
    /\ Len(calls) = 1
    /\ calls[1].op = "get_top_processes"
    /\ Len(calls[1].pids) = 2
    /\ recent_pids = calls[1].pids

\* C28: the dispatch of a command other than top_processes, known or not,
\* leaves recent_pids as it was, also the pids it has just terminated
C28_OnlyListingChangesRecent ==
    [][(request = NoRequest /\ request' # NoRequest
            /\ request'.cmd_type # Word("top_processes"))
        => recent_pids' = recent_pids]_vars

\* C28 witness: kill_by_name has terminated a process that was listed, and
\* its pid is still among the recent pids
C28_Witness ==
    /\ rev = "main"
    /\ Dispatched
    /\ request.cmd_type = Word("kill_by_name")
    /\ Len(calls) = 1
    /\ \E i \in 1..Len(recent_pids) :
        /\ recent_pids[i] \notin procs
        /\ \E k \in 1..Len(calls[1].pids) : calls[1].pids[k] = recent_pids[i]

(***************************************************************************)
(* Claims about the turn loop                                              *)
(***************************************************************************)
ReservedKeywords == {<<"help">>, <<"exit">>, <<"quit">>, <<"voice">>, <<"v">>}

\* the loop is waiting for an utterance
Listening == running /\ ~extracted.done /\ request = NoRequest

\* C17: a turn whose utterance is a reserved keyword (help, exit, quit, voice
\* or v, in any letter case) is handled by the loop itself: no LLM call is
\* made, the transcript is not modified and no command is dispatched
C17_KeywordsBypassLlm ==
    [][(Listening /\ Lower(user_input') \in ReservedKeywords)
        => /\ UNCHANGED <<conversation_history, sent, llm_calls>>
           /\ ~extracted'.done
           /\ request' = NoRequest
           /\ calls' = <<>>]_vars

\* C17 witness: after a turn that went to the LLM, "voice" was said and the
\* voice mode is switched off, the loop listening again
C17_Witness ==
    /\ user_input = <<"voice">>
    /\ ~voice_mode
    /\ llm_calls = 1
    /\ conversation_history # <<>>
    /\ Listening

\* the transcript is user and assistant messages in alternation
Alternating(history) ==
    \A i \in 1..Len(history) :
        history[i].role = IF i % 2 = 1 THEN "user" ELSE "assistant"

\* C26 (as claimed): a chat whose LLM call fails returns the error text with
\* no command and no params and leaves the transcript exactly as it was
\* before the call, so that the transcript always alternates between user
\* and assistant messages
C26_FailedCallLeavesTranscript ==
    [][(llm_calls' = llm_calls + 1 /\ assistant_message' = <<>>)
        => /\ extracted'.prose = ErrorText("APIError")
           /\ extracted'.command = None
           /\ extracted'.params = None
           /\ conversation_history' = conversation_history
           /\ Alternating(conversation_history')]_vars

\* C27 (as claimed): the session ends only on an utterance that is exit or
\* quit in any letter case; every other utterance that goes to neither help
\* nor the voice switch, also one that contains such a word, is relayed to
\* the LLM and the loop keeps running
C27_ExitOnlyOnKeyword ==
    [][(Listening /\ user_input' # <<>>)
        => IF Lower(user_input') \in {<<"exit">>, <<"quit">>}
           THEN ~running'
           ELSE /\ running'
                /\ (Lower(user_input') \notin ReservedKeywords /\ llm_calls < MaxCalls)
                        => llm_calls' = llm_calls + 1]_vars

\* C20 (as claimed): the message list of every LLM call is the system message
\* followed by at most 20 transcript messages, the most recent ones in the
\* order in which they were added (the newest being the user message of the
\* turn)
C20_SentWithinCap ==
    sent # <<>>
        => /\ sent[1] = SystemMessage
           /\ Len(sent) - 1 <= 20
           /\ sent[Len(sent)].role = "user"

(***************************************************************************)
(* Speech on its own: the threads of a revision calling speak.             *)
(***************************************************************************)
InitSpeech ==
    /\ assistant_message = <<>>
    /\ extracted = NotExtracted
    /\ rev \in {"main", "work"}
    /\ conversation_history = <<>>
    /\ recent_pids = <<>>
    /\ voice_mode = TRUE
    /\ procs = {}
    /\ request = NoRequest
    /\ calls = <<>>
    /\ result = NoResult
    /\ RestIdle

speechVars == <<chatVars, shellVars, user_input, running, sent, llm_calls>>

\* mutant: the lock is released on the normal path only, not in a finally
\* block
ReleasedNever(t) ==
    [tts EXCEPT !.is_speaking = FALSE, !.thread[t] = "out"]

\* the finally block of main.py's speak
Released(t) ==
    [tts EXCEPT !.lock = "free", !.is_speaking = FALSE, !.thread[t] = "out"]

\* main.py: thread t calls speak; with no text or no engine available it
\* returns at once, with the lock taken it returns too (the request is
\* dropped), else it takes the lock and sets is_speaking
Speak ==
    /\ rev = "main"
    /\ tts.spoken < MaxSpeaks
    /\ \E t \in Threads :
        /\ tts.thread[t] = "out"
        /\ \E speakable \in BOOLEAN :
            tts' = IF ~speakable THEN [tts EXCEPT !.spoken = @ + 1]
                   ELSE IF tts.lock # "free"
                   THEN [tts EXCEPT !.spoken = @ + 1, !.dropped = @ + 1]
                   ELSE [tts EXCEPT !.spoken = @ + 1, !.lock = t,
                                    !.is_speaking = TRUE, !.thread[t] = "locked"]
    /\ UNCHANGED speechVars

\* main.py: _init_engine and engine.say: the playback starts, or there is no
\* engine, or an exception is raised (both end in the finally block)
Say ==
    /\ rev = "main"
    /\ \E t \in Threads :
        /\ tts.thread[t] = "locked"
        /\ \E started \in BOOLEAN :
            tts' = IF started THEN [tts EXCEPT !.thread[t] = "playing"]
                   ELSE Released(t)
    /\ UNCHANGED speechVars

\* main.py: runAndWait returns or raises; the finally block releases the lock
PlaybackEnds ==
    /\ rev = "main"
    /\ \E t \in Threads :
        /\ tts.thread[t] = "playing"
        /\ tts' = Released(t)
    /\ UNCHANGED speechVars

\* work.py: speak starts a worker for the request and, with wait, joins it
SpeakAsync ==
    /\ rev = "work"
    /\ tts.joining = 0
    /\ tts.spoken < MaxSpeaks
    /\ \E wait \in BOOLEAN :
        LET w == tts.spoken + 1
        IN  tts' = [tts EXCEPT !.spoken = w, !.worker[w] = "preparing",
                               !.joining = IF wait THEN w ELSE 0]
    /\ UNCHANGED speechVars

\* work.py: a worker gets its audio (cache or API) and starts playing it, or
\* fails before
WorkerPlays ==
    /\ rev = "work"
    /\ \E w \in Workers :
        /\ tts.worker[w] = "preparing"
        /\ \E got \in BOOLEAN :
            tts' = [tts EXCEPT !.worker[w] = IF got THEN "playing" ELSE "done"]
    /\ UNCHANGED speechVars

\* work.py: _play_audio returns and the worker ends
WorkerEnds ==
    /\ rev = "work"
    /\ \E w \in Workers :
        /\ tts.worker[w] = "playing"
        /\ tts' = [tts EXCEPT !.worker[w] = "done"]
    /\ UNCHANGED speechVars

\* work.py: join(timeout=10) returns: the worker has ended, or the ten
\* seconds are over while it still runs
JoinReturns ==
    /\ rev = "work"
    /\ tts.joining # 0
    /\ tts' = [tts EXCEPT !.joining = 0]
    /\ UNCHANGED speechVars

NextSpeech == Speak \/ Say \/ PlaybackEnds \/ SpeakAsync \/ WorkerPlays
                \/ WorkerEnds \/ JoinReturns

SpecSpeech == InitSpeech /\ [][NextSpeech]_vars

\* the playbacks going on
Playing ==
    {t \in Threads : tts.thread[t] = "playing"}
        \cup {w \in Workers : tts.worker[w] = "playing"}

\* C18 (as claimed): at most one speech playback is active at any time, also
\* when a speak request is made while the worker of an earlier one is still
\* running after the caller's wait timed out
C18_OnePlaybackAtATime ==
    Cardinality(Playing) <= 1

\* the engine goes on: a speak call that holds the lock gets to its end
SpecSpeechFair == SpecSpeech /\ WF_vars(Say) /\ WF_vars(PlaybackEnds)

\* C30: main.py: a thread that is not inside speak does not hold the lock,
\* whatever path its calls took; is_speaking is only true while a call holds
\* the lock; and a lock that is held is released again
C30_LockReleased ==
    /\ [](\A t \in Threads : tts.thread[t] = "out" => tts.lock # t)
    /\ [](tts.is_speaking => tts.lock # "free")
    /\ [](tts.lock # "free" => tts.lock \in Threads /\ tts.thread[tts.lock] # "out")
    /\ (tts.lock # "free" ~> tts.lock = "free")

\* C30 witness: all the speak calls have returned, one of them dropped
\* because another was in flight; the lock is free and is_speaking is false
C30_Witness ==
    /\ rev = "main"
    /\ tts.spoken = MaxSpeaks
    /\ tts.dropped >= 1
    /\ \A t \in Threads : tts.thread[t] = "out"
    /\ tts.lock = "free"
    /\ ~tts.is_speaking

(***************************************************************************)
(* Claims about kill_process                                               *)
(***************************************************************************)
\* C22: every call of kill_process that makes a request on the process
\* begins with terminate() on the pid it was called with; kill() is only
\* requested after terminate() went through and wait() timed out, on the
\* same pid, and never in a call that reports not found or access denied
C22_GracefulBeforeForced ==
    \A i \in 1..Len(calls) :
        calls[i].op = "kill_process" =>
            LET sig == calls[i].signals
                pid == calls[i].args[1].n
            IN  /\ sig # <<>> => sig[1].op = "terminate" /\ sig[1].pid = pid
                /\ \A k \in 1..Len(sig) :
                    sig[k].op = "kill" =>
                        /\ k = 3
                        /\ sig[1] = Signal("terminate", pid, "")
                        /\ sig[2] = Signal("wait", pid, "TimeoutExpired")
                        /\ sig[3].pid = pid
                        /\ calls[i].text \notin {KillText(rev, "notfound", pid),
                                                 KillText(rev, "denied", pid)}

\* C22 witness: the retry of main.py on the matching recent pid timed out and
\* was escalated to a forced kill
C22_Witness ==
    /\ Dispatched
    /\ Len(calls) = 2
    /\ Len(calls[2].signals) = 3
    /\ calls[2].signals[3] = Signal("kill", calls[2].args[1].n, "")
    /\ calls[2].args[1].n \notin procs

\* C29 (as claimed): kill_process and process_info give the missing-parameter
\* result only when the mapping has no pid: with an integer pid in the
\* mapping, 0 included, the collaborator is called with that pid
C29_PresentPidPassedOn ==
    (/\ Dispatched
     /\ request.cmd_type \in {Word("kill_process"), Word("process_info")}
     /\ request.params.t = "obj"
     /\ HasKey(request.params, <<"pid">>)
     /\ DictGet(request.params, <<"pid">>, None).t = "num")
        => /\ result.text # MissingParamText(rev, request.cmd_type.s)
           /\ Len(calls) >= 1
           /\ calls[1].op = IF request.cmd_type = Word("kill_process")
                            THEN "kill_process" ELSE "get_process_info"
           /\ calls[1].args = <<DictGet(request.params, <<"pid">>, None)>>

(***************************************************************************)
(* Claims about open_app                                                   *)
(***************************************************************************)
\* the entries of the table whose key is name
KeysEqual(name) == {k \in 1..Len(AppPaths) : <<AppPaths[k].key>> = name}

\* C23 (as claimed): open_application launches the target of the table key
\* that its name is, and a name that is no table key is launched verbatim
C23_ExactKeyLookup ==
    \A i \in 1..Len(calls) :
        (calls[i].op = "open_application" /\ calls[i].args[1].t = "str") =>
            LET name == calls[i].args[1].s
                target == calls[i].text
            IN  IF KeysEqual(name) # {}
                THEN \E k \in KeysEqual(name) : target = <<AppPaths[k].path>>
                ELSE target = name

(***************************************************************************)
(* The turn loop with its exception handlers: anything raised inside the   *)
(* body of the while loop (listen, the output calls, speak) is caught by   *)
(* "except Exception", reported, and the loop goes on; work.py also        *)
(* catches KeyboardInterrupt, which ends the loop.                         *)
(***************************************************************************)
Interrupted == <<"^C">>

\* what the loop body may raise outside chat and execute_command
LoopExceptions(r) ==
    {"EOFError", "OSError"} \cup (IF r = "work" THEN {"KeyboardInterrupt"} ELSE {})

\* mutant: the loop has no handler, what is raised ends it
LoopHandlerMissing(r, exception, was_running) == FALSE

\* self.running after the except clauses of the loop
LoopHandler(r, exception, was_running) ==
    IF r = "work" /\ exception = "KeyboardInterrupt" THEN FALSE ELSE was_running

\* what the handler shows
LoopReport(r, exception) ==
    IF exception = "KeyboardInterrupt" THEN <<"\n">>
    ELSE (IF r = "main" THEN <<"(warning) ">> ELSE <<>>) \o ErrorText(exception)

\* what the LLM may answer in the loop: prose, a directive that is no
\* record, and a directive whose params are a list, on which execute_command
\* fails
LoopReplies ==
    { <<"Done.">>,
      <<"Hi", " ", OPEN, "[", "7", "]", CLOSE>>,
      <<"Checking.", " ">>
          \o EncodeDirective(Word("top_processes"), JArr(<<Elem(JNum(7))>>)) }

\* what the user may say in the loop
LoopUtterances ==
    { <<>>, <<"help">>, <<"Exit">>, <<"kill", " ", "4", "3">> }

InitLoop ==
    /\ assistant_message = <<>>
    /\ extracted = NotExtracted
    /\ rev \in {"main", "work"}
    /\ conversation_history = <<>>
    /\ recent_pids = <<>>
    /\ voice_mode = TRUE
    /\ procs = {43, 44}
    /\ request = NoRequest
    /\ calls = <<>>
    /\ result = NoResult
    /\ RestIdle

HearLoop == HearOf(LoopUtterances, LoopReplies)

\* an exception reaches the handlers of the loop: the pass is abandoned, the
\* failure is shown, and the while condition is tested again
LoopRaises ==
    /\ running
    /\ \E exception \in LoopExceptions(rev) :
        /\ running' = LoopHandler(rev, exception, running)
        /\ result' = [raised |-> "", text |-> LoopReport(rev, exception)]
        /\ user_input' = IF exception = "KeyboardInterrupt" THEN Interrupted
                         ELSE user_input
    /\ extracted' = NotExtracted
    /\ assistant_message' = <<>>
    /\ request' = NoRequest
    /\ calls' = <<>>
    /\ UNCHANGED <<rev, conversation_history, recent_pids, voice_mode, procs,
                   sent, llm_calls, tts>>

NextLoop == HearLoop \/ Execute \/ EndTurn \/ LoopRaises

\* the loop thread keeps running: a pass that has begun is carried on
SpecLoop ==
    InitLoop /\ [][NextLoop]_vars /\ WF_vars(Execute) /\ WF_vars(EndTurn)

\* the failures of a turn: the LLM call failed, the directive of the reply
\* was malformed, execute_command caught an exception, or the loop did
LlmFailed == extracted.done /\ extracted.prose = ErrorText("APIError")
DirectiveFailed ==
    /\ extracted.done
    /\ HasBothMarkers(assistant_message)
    /\ ~Truthy(extracted.command)
DispatchFailed ==
    /\ request # NoRequest
    /\ \E e \in {"AttributeError", "ValueError", "TypeError"} :
        result.text = CatchExecution(rev, Exc(e, <<>>, {}, <<>>)).text
LoopFailed ==
    \E e \in {"EOFError", "OSError"} : result.text = LoopReport(rev, e)
TurnFailed == LlmFailed \/ DirectiveFailed \/ DispatchFailed \/ LoopFailed

\* C21: a failure in a turn never ends the turn loop: running is only
\* cleared by an exit utterance or by the user's interrupt, and after every
\* failed turn the loop listens again (unless the user interrupts it)
C21_FailuresNeverEndLoop ==
    /\ [][(running /\ ~running')
            => (Handling(rev, user_input') = "exit" \/ user_input' = Interrupted)]_vars
    /\ [](TurnFailed => running \/ user_input = Interrupted
                           \/ Handling(rev, user_input) = "exit")
    /\ ((running /\ TurnFailed) ~> (Listening \/ ~running))

\* C21 witness: the first LLM call failed, and the loop has taken the next
\* utterance, sent it to the LLM and got an answer
C21_Witness ==
    /\ running
    /\ llm_calls = 2
    /\ Len(conversation_history) = 3
    /\ conversation_history[1].role = "user"
    /\ conversation_history[2].role = "user"
    /\ conversation_history[3].role = "assistant"
    /\ extracted.done

(***************************************************************************)
(* The session with its threads.  main.py: the GUI (main) thread speaks    *)
(* the greeting and runs the window while the listen thread runs the turn  *)
(* loop; the loop thread is inside speak when it speaks.  work.py: the     *)
(* loop runs in the main thread, and every speak leaves a worker thread    *)
(* behind.  Only the loop thread calls chat and execute_command.           *)
(***************************************************************************)
SessionUtterances == { <<>>, <<"kill", " ", "4", "3">> }

SessionReplies ==
    { <<"Checking.", " ">> \o EncodeDirective(Word("top_processes"), EmptyDict),
      <<"Terminating.", " ">>
          \o EncodeDirective(Word("kill_process"), Obj1("pid", JNum(43))) }

InitSession ==
    /\ assistant_message = <<>>
    /\ extracted = NotExtracted
    /\ rev \in {"main", "work"}
    /\ conversation_history = <<>>
    /\ recent_pids = <<>>
    /\ voice_mode = TRUE
    /\ procs = {43, 44}
    /\ request = NoRequest
    /\ calls = <<>>
    /\ result = NoResult
    /\ RestIdle

\* the loop thread is not inside speak nor joining a worker
LoopFree == tts.thread["loop"] = "out" /\ tts.joining = 0

HearSession == LoopFree /\ HearOf(SessionUtterances, SessionReplies)
ExecuteSession == LoopFree /\ Execute
EndTurnSession == LoopFree /\ EndTurn

NextSession ==
    \/ HearSession \/ ExecuteSession \/ EndTurnSession
    \/ Speak \/ Say \/ PlaybackEnds
    \/ SpeakAsync \/ WorkerPlays \/ WorkerEnds \/ JoinReturns

SpecSession == InitSession /\ [][NextSession]_vars

\* C24: dispatches do not overlap: an utterance is accepted only when no
\* command is pending or being executed, a command is dispatched only when
\* the one before has been shown, and the transcript, recent_pids and the
\* dispatch state are changed by steps of the loop thread alone, whatever
\* the GUI thread and the speech are doing
C24_DispatchesDoNotOverlap ==
    [][/\ (user_input' # user_input /\ user_input' # <<>>)
            => (request = NoRequest /\ ~extracted.done)
       /\ (request' # NoRequest /\ <<request, calls, result>>' # <<request, calls, result>>)
            => request = NoRequest
       /\ (<<conversation_history, recent_pids, request, calls, result>>'
                # <<conversation_history, recent_pids, request, calls, result>>)
            => (LoopFree /\ tts' = tts)]_vars

\* C24 witness: a listing has been dispatched and its result is still shown
\* while the GUI thread's greeting is being played
C24_Witness ==
    /\ Dispatched
    /\ recent_pids # <<>>
    /\ tts.thread["gui"] = "playing"

=============================================================================
